---- MODULE Spec2Model ----
(***************************************************************************)
(* Model of the yayois-garden agent: the chain indexer, the auction-end    *)
(* scheduler, the settlement tasks and the collection contract they talk   *)
(* to.  Every goroutine of the agent is a process of the model; a step of  *)
(* a process is one block of statements between two points where another   *)
(* goroutine can observe or change the shared state (the indexer cache is  *)
(* shared without a lock, pkg/agent/indexer/indexer.go).                   *)
(***************************************************************************)
EXTENDS Integers, Sequences, FiniteSets, TLC

\* ---------------------------------------------------------------- bounds

\* Addresses of the collections the factory can create.
Addr == {"c1"}
\* Addresses of contracts that the factory did not create.
RogueAddr == {"r1"}
\* Last value of the clock (seconds); the clock is the chain's block time.
MaxTime == 2
\* Auction durations a collection can be created with (the contract
\* requires auctionDuration > 0).
Durations == {1, 2}
\* Bound of the catch-up loop: a sweep forks no task once NextAuctionId
\* has reached it (at MaxTime a collection is in auction MaxTime at most,
\* so that only a sweep that runs ahead of the clock meets the bound).
MaxNext == 4
\* Number of logs emitted by contracts other than the factory and its
\* collections.
MaxRogueLogs == 1
\* Last value of the clock in SpecRogue and LiveSpec.
ShortMaxTime == 1
\* uint64 arithmetic, with the width reduced: values are taken modulo it.
UintModulus == 64
\* indexingLogChunkSize (10000 in the source), reduced: one FilterLogs
\* request covers the blocks [fromBlock, fromBlock + ChunkSize].
ChunkSize == 2
\* Capacity of auctionEndChan (1000 in the source), reduced.
ChanCap == 2
\* Number of processAuctionEnd calls followed statement by statement.
MaxRuns == 2
\* gcm.NonceSize() (12 bytes), reduced.
NonceSize == 2
\* Last value of the clock in SpecBackpressure: long enough for more
\* auctions with a bid to end than auctionEndChan holds.
LongMaxTime == 3

\* ------------------------------------------------------------- addresses

FactoryAddress == "factory"
RogueFactory == "rogue"
ZeroAddress == "0x0"
User == "u1"

VARIABLES
    \* chain
    chainLogs,          \* block b (1..head) carries the log chainLogs[b]
    time,               \* block timestamp = clock.Now()
    coll,               \* state of the collection contracts
    \* indexer
    cache,              \* Indexer.cache: address -> CollectionInfo
    lastIndexedBlock,   \* Indexer.lastIndexedBlock
    scan,               \* the running indexEvents call
    initTasks,          \* initializeCollection tasks in the pool
    started,            \* Indexer.Start has launched the two tickers
    \* scheduler
    sweep,              \* the running tick of monitorAuctionsTask
    forks,              \* every settle goroutine forked in this run, in order
    settleTasks,        \* indices of forks that have not run yet
    \* agent
    chan,               \* auctionEndChan
    emitted,            \* every AuctionEnd sent in this run, in order
    procTasks,          \* running processAuctionEnd goroutines
    mu,                 \* Agent.mu
    \* one settlement, statement by statement
    pipe,               \* the processAuctionEnd call under observation
    \* keystore
    disk,               \* the file at config.SecureFile
    boot,               \* the running Setup / sealing call
    \* process
    run,                \* main, Agent.Start, the HTTP server, the root context
    signing,            \* the last SignMintMessage and what was recovered
    lastTx              \* the last finishPromptAuction transaction of anyone

chainVars == <<chainLogs, time, coll>>
indexerVars == <<cache, lastIndexedBlock, scan, initTasks, started>>
schedVars == <<sweep, forks, settleTasks>>
agentVars == <<chan, emitted, procTasks, mu>>
auxVars == <<pipe, disk, boot, run, signing, lastTx>>
vars == <<chainVars, indexerVars, schedVars, agentVars, auxVars>>

\* ------------------------------------------------------ collection contract

NoCollection ==
    [created |-> FALSE, creationTimestamp |-> 0,
     auctionDuration |-> 0, bids |-> {}, finished |-> {}, tokens |-> <<>>]

\* YayoiCollection.getCurrentAuctionId
getCurrentAuctionId(a) ==
    (time - coll[a].creationTimestamp) \div coll[a].auctionDuration

\* YayoiCollection.getAuctionEndTime
getAuctionEndTime(a, id) ==
    coll[a].creationTimestamp + (id + 1) * coll[a].auctionDuration

\* YayoiCollection.getAuction: the record of an id nobody bid on is empty.
getAuction(a, id) ==
    [finished |-> id \in coll[a].finished,
     highestBidder |-> IF id \in coll[a].bids THEN User ELSE ZeroAddress]

\* The three requires of YayoiCollection.finishPromptAuction (the signature
\* of the agent's wallet is the authorised one).
finishPromptAuctionAccepts(a, id) ==
    /\ coll[a].created
    /\ time >= getAuctionEndTime(a, id)
    /\ id \notin coll[a].finished
    /\ id \in coll[a].bids

CollectionCreatedLog(emitter, a) ==
    [topic |-> "CollectionCreated", address |-> emitter, collection |-> a,
     auctionId |-> 0]

PromptAuctionFinishedLog(a, id) ==
    [topic |-> "PromptAuctionFinished", address |-> a, collection |-> a,
     auctionId |-> id]

\* YayoiFactory.createCollection and YayoiCollection.initialize.
CreateCollection(a, d) ==
    /\ ~coll[a].created
    /\ coll' = [coll EXCEPT ![a] =
                  [NoCollection EXCEPT !.created = TRUE,
                                       !.creationTimestamp = time,
                                       !.auctionDuration = d]]
    /\ chainLogs' = Append(chainLogs, CollectionCreatedLog(FactoryAddress, a))
    /\ UNCHANGED <<time, indexerVars, schedVars, agentVars>>
    /\ UNCHANGED auxVars

\* YayoiCollection.suggestPrompt: a bid on the current auction.
SuggestPrompt(a) ==
    /\ coll[a].created
    /\ getCurrentAuctionId(a) \notin coll[a].bids
    /\ coll' = [coll EXCEPT ![a].bids = @ \cup {getCurrentAuctionId(a)}]
    /\ UNCHANGED <<chainLogs, time, indexerVars, schedVars, agentVars>>
    /\ UNCHANGED auxVars

\* The logs with the two event signatures that contracts other than the
\* factory and its collections can emit.
RogueLogs ==
    {CollectionCreatedLog(RogueFactory, a) : a \in Addr \cup RogueAddr}
    \cup {PromptAuctionFinishedLog(r, id) : r \in RogueAddr, id \in 0..1}

EmitRogueLog(l) ==
    /\ Cardinality({b \in 1..Len(chainLogs) : chainLogs[b] \in RogueLogs})
         < MaxRogueLogs
    /\ chainLogs' = Append(chainLogs, l)
    /\ UNCHANGED <<time, coll, indexerVars, schedVars, agentVars>>
    /\ UNCHANGED auxVars

\* simulated.Backend.AdjustTime / the passing of time, up to max.
TickUpTo(max) ==
    /\ time < max
    /\ time' = time + 1
    /\ UNCHANGED <<chainLogs, coll, indexerVars, schedVars, agentVars>>
    /\ UNCHANGED auxVars

Tick == TickUpTo(MaxTime)

\* ------------------------------------------------------------------ indexer

ZeroInfo ==
    [NextAuctionIdInitialized |-> FALSE, MetadataInitialized |-> FALSE,
     CreationTimestamp |-> 0, AuctionDuration |-> 0, NextAuctionId |-> 0]

\* CollectionInfo.Initialized
Initialized(info) ==
    info.NextAuctionIdInitialized /\ info.MetadataInitialized

isCollectionKeyCached(c, a) == a \in DOMAIN c

\* Indexer.getCollectionInfo / cacheCollectionKey: the entry is created on
\* first use.
cacheCollectionKey(c, a) ==
    IF a \in DOMAIN c THEN c
    ELSE [x \in DOMAIN c \cup {a} |-> IF x = a THEN ZeroInfo ELSE c[x]]

IdleScan == [pc |-> "idle", targetBlock |-> 0, fromBlock |-> 0, discovered |-> {}]

\* A scan that does not compare the emitter with the factory address.
IsAnyCollectionCreated(log) ==
    log.topic = "CollectionCreated"

\* indexEvents, line 259: the log is a CollectionCreated of the factory.
IsFactoryCollectionCreated(log) ==
    log.topic = "CollectionCreated" /\ log.address = FactoryAddress

\* A scan that stores the id of the event itself.
NextAuctionIdFromEventItself(auctionId) == auctionId % UintModulus

\* indexEvents, line 294.
NextAuctionIdFromEvent(auctionId) == (auctionId + 1) % UintModulus

\* The body of the loop over the logs of one chunk (indexEvents): st is
\* the cache, the discovered collections and the submitted pool tasks.
RECURSIVE ApplyLogs(_, _)
ApplyLogs(st, logs) ==
    IF logs = <<>> THEN st
    ELSE LET log == Head(logs)
             next ==
               IF IsFactoryCollectionCreated(log)
               THEN [cache |-> cacheCollectionKey(st.cache, log.collection),
                     discovered |-> st.discovered \cup {log.collection},
                     submitted |-> st.submitted \cup {log.collection}]
               ELSE IF log.topic = "PromptAuctionFinished"
               THEN IF ~isCollectionKeyCached(st.cache, log.address)
                    THEN st
                    ELSE IF ~st.cache[log.address].NextAuctionIdInitialized
                         THEN [st EXCEPT !.cache[log.address].NextAuctionId =
                                            NextAuctionIdFromEvent(log.auctionId)]
                         ELSE st
               ELSE st
         IN ApplyLogs(next, Tail(logs))

\* FilterLogs over [from, to]: block 0 carries no log.
FilterLogs(from, to) ==
    LET lo == IF from < 1 THEN 1 ELSE from
        hi == IF to > Len(chainLogs) THEN Len(chainLogs) ELSE to
    IN IF lo > hi THEN <<>> ELSE SubSeq(chainLogs, lo, hi)

Min(x, y) == IF x < y THEN x ELSE y

\* indexEvents, lines 219-234: BlockNumber succeeded.
ScanBegin ==
    /\ scan.pc = "idle"
    /\ scan' = [pc |-> "chunks", targetBlock |-> Len(chainLogs),
                fromBlock |-> lastIndexedBlock, discovered |-> {}]
    /\ UNCHANGED <<chainVars, cache, lastIndexedBlock, initTasks, started,
                   schedVars, agentVars>>
    /\ UNCHANGED auxVars

\* indexEvents, lines 219-234: BlockNumber succeeded on a node that is
\* behind the head the chain has reached (a lagging node behind a load
\* balancer, or a head that a reorganisation took back).
ScanBeginLagging ==
    /\ scan.pc = "idle"
    /\ \E head \in 0..(Len(chainLogs) - 1) :
          scan' = [pc |-> "chunks", targetBlock |-> head,
                   fromBlock |-> lastIndexedBlock, discovered |-> {}]
    /\ UNCHANGED <<chainVars, cache, lastIndexedBlock, initTasks, started,
                   schedVars, agentVars>>
    /\ UNCHANGED auxVars

\* indexEvents, lines 219-222: BlockNumber failed; Start and the ticker
\* task go on.
ScanBlockNumberFails ==
    /\ scan.pc = "idle"
    /\ ~started
    /\ started' = TRUE
    /\ UNCHANGED <<chainVars, cache, lastIndexedBlock, scan, initTasks,
                   schedVars, agentVars>>
    /\ UNCHANGED auxVars

\* initializeCollection has stored the metadata of a: a further task for a
\* rewrites the same values (creationTimestamp and auctionDuration never
\* change on chain).
MetadataStored(info, a) ==
    /\ info.MetadataInitialized
    /\ info.CreationTimestamp = coll[a].creationTimestamp
    /\ info.AuctionDuration = coll[a].auctionDuration

\* indexEvents, lines 235-300: one chunk is fetched and its logs applied.
\* Line 271 submits a task to the pool for every CollectionCreated log; the
\* tasks of one collection are modelled by one task at a time, and a task
\* that would rewrite the stored metadata is left out.
ScanChunk ==
    /\ scan.pc = "chunks"
    /\ scan.fromBlock <= scan.targetBlock
    /\ LET toBlock == Min(scan.fromBlock + ChunkSize, scan.targetBlock)
           st == ApplyLogs([cache |-> cache, discovered |-> scan.discovered,
                            submitted |-> {}],
                           FilterLogs(scan.fromBlock, toBlock))
       IN /\ cache' = st.cache
          /\ initTasks' = [a \in Addr |->
                             IF a \in st.submitted /\ initTasks[a] = "none"
                                /\ ~MetadataStored(st.cache[a], a)
                             THEN "queued" ELSE initTasks[a]]
          /\ scan' = [scan EXCEPT !.fromBlock = toBlock + 1,
                                  !.discovered = st.discovered]
    /\ UNCHANGED <<chainVars, lastIndexedBlock, started, schedVars, agentVars>>
    /\ UNCHANGED auxVars

\* A failing scan that records the block it got to.
ScanChunkFailsKeepingProgress ==
    /\ scan.pc = "chunks"
    /\ scan.fromBlock <= scan.targetBlock
    /\ scan' = IdleScan
    /\ started' = TRUE
    /\ lastIndexedBlock' = scan.fromBlock
    /\ UNCHANGED <<chainVars, cache, initTasks, schedVars, agentVars>>
    /\ UNCHANGED auxVars

\* indexEvents, lines 252-254: FilterLogs failed.
ScanChunkFails ==
    /\ scan.pc = "chunks"
    /\ scan.fromBlock <= scan.targetBlock
    /\ scan' = IdleScan
    /\ started' = TRUE
    /\ UNCHANGED <<chainVars, cache, lastIndexedBlock, initTasks, schedVars,
                   agentVars>>
    /\ UNCHANGED auxVars

\* A loop over the discovered collections that inverts the flag.
FlipNextAuctionIdInitialized(c, discovered) ==
    [a \in DOMAIN c |->
       IF a \in discovered
       THEN [c[a] EXCEPT !.NextAuctionIdInitialized = ~@]
       ELSE c[a]]

\* indexEvents, lines 302-306: the loop over discoveredCollections.
MarkNextAuctionIdInitialized(c, discovered) ==
    [a \in DOMAIN c |->
       IF a \in discovered
       THEN [c[a] EXCEPT !.NextAuctionIdInitialized = TRUE]
       ELSE c[a]]

\* indexEvents, lines 302-311.
ScanFinish ==
    /\ scan.pc = "chunks"
    /\ scan.fromBlock > scan.targetBlock
    /\ cache' = MarkNextAuctionIdInitialized(cache, scan.discovered)
    /\ lastIndexedBlock' = scan.targetBlock
    /\ scan' = IdleScan
    /\ started' = TRUE
    /\ UNCHANGED <<chainVars, initTasks, schedVars, agentVars>>
    /\ UNCHANGED auxVars

\* indexEvents, lines 234-300: the loop over the chunks of
\* [fromBlock, targetBlock], stopped after at most n chunks.
RECURSIVE RunChunks(_, _, _, _)
RunChunks(st, fromBlock, targetBlock, n) ==
    IF fromBlock > targetBlock \/ n = 0 THEN st
    ELSE LET toBlock == Min(fromBlock + ChunkSize, targetBlock)
         IN RunChunks(ApplyLogs(st, FilterLogs(fromBlock, toBlock)),
                      toBlock + 1, targetBlock, n - 1)

\* The cache after the first n chunks of an indexEvents call.
PartialIndexEvents(c, fromBlock, targetBlock, n) ==
    RunChunks([cache |-> c, discovered |-> {}, submitted |-> {}],
              fromBlock, targetBlock, n).cache

\* The cache after an indexEvents call that returns no error, started
\* with the cache c and lastIndexedBlock = fromBlock when BlockNumber
\* reports targetBlock.
indexEvents(c, fromBlock, targetBlock) ==
    LET st == RunChunks([cache |-> c, discovered |-> {}, submitted |-> {}],
                        fromBlock, targetBlock, targetBlock + 1)
    IN MarkNextAuctionIdInitialized(st.cache, st.discovered)

\* initializeCollection, lines 316-333: both view calls succeeded and the
\* flag is written.
InitSetFlag(a) ==
    /\ initTasks[a] = "queued"
    /\ a \in DOMAIN cache
    /\ cache' = [cache EXCEPT ![a].MetadataInitialized = TRUE]
    /\ initTasks' = [initTasks EXCEPT ![a] = "flagSet"]
    /\ UNCHANGED <<chainVars, lastIndexedBlock, scan, started, schedVars,
                   agentVars>>
    /\ UNCHANGED auxVars

\* initializeCollection, lines 323-331: a view call failed.
InitFails(a) ==
    /\ initTasks[a] = "queued"
    /\ initTasks' = [initTasks EXCEPT ![a] = "none"]
    /\ UNCHANGED <<chainVars, cache, lastIndexedBlock, scan, started,
                   schedVars, agentVars>>
    /\ UNCHANGED auxVars

\* initializeCollection, line 335.
InitSetTimestamp(a) ==
    /\ initTasks[a] = "flagSet"
    /\ cache' = [cache EXCEPT ![a].CreationTimestamp = coll[a].creationTimestamp]
    /\ initTasks' = [initTasks EXCEPT ![a] = "timestampSet"]
    /\ UNCHANGED <<chainVars, lastIndexedBlock, scan, started, schedVars,
                   agentVars>>
    /\ UNCHANGED auxVars

\* initializeCollection, line 336.
InitSetDuration(a) ==
    /\ initTasks[a] = "timestampSet"
    /\ cache' = [cache EXCEPT ![a].AuctionDuration = coll[a].auctionDuration]
    /\ initTasks' = [initTasks EXCEPT ![a] = "none"]
    /\ UNCHANGED <<chainVars, lastIndexedBlock, scan, started, schedVars,
                   agentVars>>
    /\ UNCHANGED auxVars

\* ---------------------------------------------------------------- scheduler

IdleSweep ==
    [pc |-> "idle", now |-> 0, pending |-> {}, visited |-> {},
     addr |-> ZeroAddress, auctionEnd |-> 0, next0 |-> 0, forked |-> {}]

\* monitorAuctionsTask, lines 144-145: a tick.
SweepTick ==
    /\ started
    /\ sweep.pc = "idle"
    /\ sweep' = [IdleSweep EXCEPT !.pc = "range", !.now = time,
                                  !.pending = DOMAIN cache]
    /\ UNCHANGED <<chainVars, indexerVars, forks, settleTasks, agentVars>>
    /\ UNCHANGED auxVars

\* monitorAuctionsTask, line 154.
FirstAuctionEnd(info) ==
    (info.CreationTimestamp + info.NextAuctionId * info.AuctionDuration)
    % UintModulus

\* monitorAuctionsTask, lines 147-154: the next entry of the range over the
\* cache (an entry inserted during the range may be produced or skipped).
\* next0 and forked record what this visit started from and has forked.
SweepVisit(a) ==
    /\ sweep.pc = "range"
    /\ a \in DOMAIN cache
    /\ a \notin sweep.visited
    /\ IF Initialized(cache[a])
       THEN sweep' = [sweep EXCEPT
                        !.pc = "loop", !.addr = a,
                        !.auctionEnd = FirstAuctionEnd(cache[a]),
                        !.next0 = cache[a].NextAuctionId,
                        !.forked = {}]
       ELSE sweep' = [sweep EXCEPT !.visited = @ \cup {a}]
    /\ UNCHANGED <<chainVars, indexerVars, forks, settleTasks, agentVars>>
    /\ UNCHANGED auxVars

\* A scheduler that counts the ids downwards.
currentAuctionIdDescending(info) == (2 - info.NextAuctionId) % UintModulus

\* monitorAuctionsTask, line 156.
currentAuctionId(info) == (info.NextAuctionId - 1) % UintModulus

\* A scheduler that forgets the increment.
KeepNextAuctionId(n) == n

\* monitorAuctionsTask, line 159.
IncrementNextAuctionId(n) == (n + 1) % UintModulus

\* monitorAuctionsTask, lines 155-190: one iteration of the catch-up loop.
SweepLoopIter ==
    /\ sweep.pc = "loop"
    /\ sweep.auctionEnd <= sweep.now
    /\ cache[sweep.addr].NextAuctionId < MaxNext
    /\ LET info == cache[sweep.addr]
       IN /\ forks' = Append(forks, [coll |-> sweep.addr,
                                     id |-> currentAuctionId(info)])
          /\ settleTasks' = settleTasks \cup {Len(forks) + 1}
          /\ cache' = [cache EXCEPT ![sweep.addr].NextAuctionId =
                                       IncrementNextAuctionId(@)]
          /\ sweep' = [sweep EXCEPT
                         !.auctionEnd = (@ + info.AuctionDuration) % UintModulus,
                         !.forked = @ \cup {currentAuctionId(info)}]
    /\ UNCHANGED <<chainVars, lastIndexedBlock, scan, initTasks, started,
                   agentVars>>
    /\ UNCHANGED auxVars

\* monitorAuctionsTask, line 155: the loop condition fails.
SweepLoopExit ==
    /\ sweep.pc = "loop"
    /\ sweep.auctionEnd > sweep.now
    /\ sweep' = [sweep EXCEPT !.pc = "range", !.visited = @ \cup {sweep.addr},
                              !.addr = ZeroAddress, !.auctionEnd = 0,
                              !.next0 = 0, !.forked = {}]
    /\ UNCHANGED <<chainVars, indexerVars, forks, settleTasks, agentVars>>
    /\ UNCHANGED auxVars

\* monitorAuctionsTask, line 147: the range is over.
SweepEnd ==
    /\ sweep.pc = "range"
    /\ sweep.pending \subseteq sweep.visited
    /\ sweep' = IdleSweep
    /\ UNCHANGED <<chainVars, indexerVars, forks, settleTasks, agentVars>>
    /\ UNCHANGED auxVars

\* A settle task that sends whatever getAuction returned.
HasBidderOrNot(auction) == TRUE

\* monitorAuctionsTask, line 181.
HasBidder(auction) == auction.highestBidder # ZeroAddress

\* monitorAuctionsTask, lines 161-189: the forked goroutine; the view call
\* succeeded.  The send blocks while the channel is full.
SettleRun(i) ==
    /\ i \in settleTasks
    /\ LET f == forks[i]
           auction == getAuction(f.coll, f.id)
       IN IF HasBidder(auction)
          THEN /\ Len(chan) < ChanCap
               /\ LET msg == [coll |-> f.coll, id |-> f.id,
                              winner |-> auction.highestBidder, fork |-> i]
                  IN /\ chan' = Append(chan, msg)
                     /\ emitted' = Append(emitted, msg)
          ELSE UNCHANGED <<chan, emitted>>
    /\ settleTasks' = settleTasks \ {i}
    /\ UNCHANGED <<chainVars, indexerVars, sweep, forks, procTasks, mu>>
    /\ UNCHANGED auxVars

\* monitorAuctionsTask, lines 168-172: GetAuction failed.
SettleFails(i) ==
    /\ i \in settleTasks
    /\ settleTasks' = settleTasks \ {i}
    /\ UNCHANGED <<chainVars, indexerVars, sweep, forks, agentVars>>
    /\ UNCHANGED auxVars

\* -------------------------------------------------------------------- agent

\* The uri of the pinned metadata of an auction.
MetadataHash(a, id) == <<"meta", a, id>>

\* Agent.Start, lines 190-196.
AgentReceive ==
    /\ chan # <<>>
    /\ procTasks' = procTasks \cup {[msg |-> Head(chan), pc |-> "pipeline"]}
    /\ chan' = Tail(chan)
    /\ UNCHANGED <<chainVars, indexerVars, schedVars, emitted, mu>>
    /\ UNCHANGED auxVars

\* processAuctionEnd, lines 204-254: a step failed and the task returns.
ProcPipelineFails(t) ==
    /\ t \in procTasks
    /\ t.pc = "pipeline"
    /\ procTasks' = procTasks \ {t}
    /\ UNCHANGED <<chainVars, indexerVars, schedVars, chan, emitted, mu>>
    /\ UNCHANGED auxVars

\* A lock that never waits.
LockWithoutWaiting(m) == TRUE

\* sync.Mutex.Lock returns only when the mutex is free.
Lock(m) == m = "free"

\* processAuctionEnd, lines 257-262 and YayoiCollection.finishPromptAuction:
\* the transaction is accepted and the mutex unlocked, or it is rejected
\* and the task returns without unlocking.
FinishPromptAuction(t) ==
    IF finishPromptAuctionAccepts(t.msg.coll, t.msg.id)
    THEN /\ coll' = [coll EXCEPT
                       ![t.msg.coll].finished = @ \cup {t.msg.id},
                       ![t.msg.coll].tokens =
                           Append(@, [uri |-> MetadataHash(t.msg.coll, t.msg.id),
                                      owner |-> t.msg.winner])]
         /\ chainLogs' = Append(chainLogs,
                                PromptAuctionFinishedLog(t.msg.coll, t.msg.id))
         /\ mu' = "free"
    ELSE /\ mu' = "held"
         /\ UNCHANGED <<coll, chainLogs>>

\* processAuctionEnd, lines 204-254, as a step of its own: prompt, domain,
\* image, pins and signature all succeeded.
ProcPipeline(t) ==
    /\ t \in procTasks
    /\ t.pc = "pipeline"
    /\ procTasks' = (procTasks \ {t}) \cup {[t EXCEPT !.pc = "lock"]}
    /\ UNCHANGED <<chainVars, indexerVars, schedVars, chan, emitted, mu>>
    /\ UNCHANGED auxVars

\* processAuctionEnd, line 256.
ProcLock(t) ==
    /\ t \in procTasks
    /\ t.pc = "lock"
    /\ Lock(mu)
    /\ mu' = "held"
    /\ procTasks' = (procTasks \ {t}) \cup {[t EXCEPT !.pc = "submit"]}
    /\ UNCHANGED <<chainVars, indexerVars, schedVars, chan, emitted>>
    /\ UNCHANGED auxVars

\* processAuctionEnd, lines 257-262.
ProcSubmit(t) ==
    /\ t \in procTasks
    /\ t.pc = "submit"
    /\ procTasks' = procTasks \ {t}
    /\ FinishPromptAuction(t)
    /\ UNCHANGED <<time, indexerVars, schedVars, chan, emitted>>
    /\ UNCHANGED auxVars

\* ------------------------------------------------- one settlement in detail

\* systemPromptMaxSize, agent.go line 93.
systemPromptMaxSize == 5000

\* Content-Length values a HEAD response can carry (-1: unknown).
ContentLengths == {0 - 1, 4999, 5000, 6000}

\* Strings are sequences of words; "" is the empty sequence.
EmptyString == <<>>
PromptSeparator == <<"\n\n">>
UserPrompts == {<<"user prompt">>, <<"another user prompt">>}
CollectionName == "collection name"

\* The keystore's RSA key and a key the agent does not hold.
AgentRsaKey == "agent rsa key"
OtherRsaKey == "other rsa key"

\* HTTP bodies served at a systemPromptUri: plain text, or the RSA-OAEP
\* SHA-256 encryption of a text under a public key.
Bodies ==
    {[key |-> "none", text |-> <<"plain text">>],
     [key |-> "none", text |-> EmptyString],
     [key |-> AgentRsaKey, text |-> <<"decrypted text">>],
     [key |-> OtherRsaKey, text |-> <<"decrypted text">>]}

\* The bytes of a body as io.ReadAll returns them.
RawBytes(body) ==
    IF body.key = "none" THEN body.text
    ELSE <<"oaep ciphertext", body.key>> \o body.text

\* rsa.DecryptOAEP with the private key priv.
DecryptOAEP(priv, body) ==
    IF body.key = priv
    THEN [err |-> FALSE, plaintext |-> body.text]
    ELSE [err |-> TRUE, plaintext |-> EmptyString]

\* readSystemPromptFromUri, lines 298-305.
DecryptOrRaw(body) ==
    LET d == DecryptOAEP(AgentRsaKey, body)
    IN IF d.err THEN RawBytes(body) ELSE d.plaintext

\* generatePrompt, generator_openai.go lines 48-50.
generatePrompt(systemPrompt, prompt) ==
    systemPrompt \o PromptSeparator \o prompt

\* processAuctionEnd, line 233: the arguments of the call, bound to the
\* parameters of ArtGenerator.GenerateUrl(ctx, systemPrompt, prompt) in the
\* order in which the call passes them: event.Prompt, then systemPrompt.
GenerateUrlArguments(eventPrompt, systemPrompt) ==
    [systemPrompt |-> eventPrompt, prompt |-> systemPrompt]

\* OpenAiGenerator.GenerateUrl: the url of the image made from a request.
ImageUrl(request) == <<"image url">> \o request

\* Uploader.UploadUrl: the hash under which the content of a url is pinned.
UploadUrl(url) == <<"ipfs">> \o url

\* A metadata object with description and image exchanged.
MetadataObjectSwapped(name, description, image) ==
    [name |-> name, description |-> image, image |-> description]

\* NftUploader.Upload, lines 26-30.
MetadataObject(name, description, image) ==
    [name |-> name, description |-> description, image |-> image]

NoObject == MetadataObject("", EmptyString, EmptyString)

\* Uploader.UploadJson: the hash under which an object is pinned.
UploadJson(object) == [pinned |-> object]

NoHash == UploadJson(NoObject)

\* Wallet.SignMintMessage: the wallet's signature of Mint(to, uri).
SignMintMessage(to, uri) == [to |-> to, uri |-> uri]

NoSignature == SignMintMessage(ZeroAddress, NoHash)

\* The collections whose auctions the settlements are for.
PipeCollections == Addr \cup {"c2"}

\* The AuctionEnd tasks a settlement can be started with.
Events ==
    {[coll |-> a, id |-> i, prompt |-> p, winner |-> User] :
        a \in PipeCollections, i \in 0..1, p \in UserPrompts}

\* common.Address.Hex: the key of a collection in systemPromptCache.
Hex(a) == <<"0x", a>>

NoCacheEntry == [hit |-> FALSE, value |-> EmptyString]

\* expirable.NewLRU, agent.go line 101: no key has a live entry.
EmptyPromptCache == [k \in {Hex(a) : a \in PipeCollections} |-> NoCacheEntry]

\* A processAuctionEnd call that has not started: cache is
\* systemPromptCache (key -> live entry), runs the number of calls so far.
NewPipe(promptCache, runs) ==
    [pc |-> "idle", runs |-> runs, cache |-> promptCache,
     event |-> [coll |-> ZeroAddress, id |-> 0, prompt |-> EmptyString,
                winner |-> ZeroAddress],
     fromCache |-> FALSE, uriCalled |-> FALSE,
     headDone |-> FALSE, headLength |-> 0,
     getDone |-> FALSE, body |-> [key |-> "none", text |-> EmptyString],
     systemPrompt |-> EmptyString, domainDone |-> FALSE,
     genCalled |-> FALSE, genSystemPrompt |-> EmptyString,
     genPrompt |-> EmptyString, imageRequest |-> EmptyString,
     artUrl |-> EmptyString,
     imagePin |-> "none", imageHash |-> EmptyString,
     jsonPin |-> "none", jsonObject |-> NoObject, ipfsHash |-> NoHash,
     signed |-> FALSE, signature |-> NoSignature,
     submitted |-> FALSE, submittedId |-> 0, submittedUri |-> NoHash,
     submittedSignature |-> NoSignature,
     failedAt |-> "none"]

IdlePipe == NewPipe(EmptyPromptCache, 0)

PipeUnchanged ==
    UNCHANGED <<chainVars, indexerVars, schedVars, agentVars, disk, boot,
                run, signing, lastTx>>

\* Agent.Start, line 196: processAuctionEnd is called with an AuctionEnd.
PipeStart(e) ==
    /\ pipe.pc = "idle"
    /\ pipe.runs < MaxRuns
    /\ pipe' = [NewPipe(pipe.cache, pipe.runs + 1) EXCEPT
                  !.pc = "cacheGet", !.event = e]
    /\ PipeUnchanged

\* processAuctionEnd, lines 210-211: the prompt is in systemPromptCache.
PipeCacheHit ==
    /\ pipe.pc = "cacheGet"
    /\ pipe.cache[Hex(pipe.event.coll)].hit
    /\ pipe' = [pipe EXCEPT
                  !.pc = "domain", !.fromCache = TRUE,
                  !.systemPrompt = pipe.cache[Hex(pipe.event.coll)].value]
    /\ PipeUnchanged

\* processAuctionEnd, lines 211-216: it is not; SystemPromptUri succeeded.
PipeCacheMiss ==
    /\ pipe.pc = "cacheGet"
    /\ ~pipe.cache[Hex(pipe.event.coll)].hit
    /\ pipe' = [pipe EXCEPT !.pc = "head", !.uriCalled = TRUE]
    /\ PipeUnchanged

\* expirable.LRU: the entry of a key is dropped, its TTL of
\* systemPromptCacheTTL over or the cache above systemPromptCacheSize.
PipeCacheExpires(a) ==
    /\ pipe.cache[Hex(a)].hit
    /\ pipe' = [pipe EXCEPT !.cache[Hex(a)] = NoCacheEntry]
    /\ PipeUnchanged

\* readSystemPromptFromUri, lines 266-280, and processAuctionEnd, line 224:
\* the HEAD response reports length; at systemPromptMaxSize or above the
\* resolver returns "" and no error, and the agent caches that.
PipeHead(length) ==
    /\ pipe.pc = "head"
    /\ pipe' = IF length >= systemPromptMaxSize
               THEN [pipe EXCEPT !.headDone = TRUE, !.headLength = length,
                                 !.systemPrompt = EmptyString,
                                 !.cache[Hex(pipe.event.coll)] =
                                     [hit |-> TRUE, value |-> EmptyString],
                                 !.pc = "domain"]
               ELSE [pipe EXCEPT !.headDone = TRUE, !.headLength = length,
                                 !.pc = "get"]
    /\ PipeUnchanged

\* A processAuctionEnd that does not add the prompt it read to the cache.
PipeGetWithoutAdd(body) ==
    /\ pipe.pc = "get"
    /\ pipe' = [pipe EXCEPT !.getDone = TRUE, !.body = body,
                            !.systemPrompt = DecryptOrRaw(body),
                            !.pc = "domain"]
    /\ PipeUnchanged

\* readSystemPromptFromUri, lines 282-305, and processAuctionEnd, line 224.
PipeGet(body) ==
    /\ pipe.pc = "get"
    /\ pipe' = [pipe EXCEPT !.getDone = TRUE, !.body = body,
                            !.systemPrompt = DecryptOrRaw(body),
                            !.cache[Hex(pipe.event.coll)] =
                                [hit |-> TRUE, value |-> DecryptOrRaw(body)],
                            !.pc = "domain"]
    /\ PipeUnchanged

\* processAuctionEnd, lines 227-231.
PipeDomain ==
    /\ pipe.pc = "domain"
    /\ pipe' = [pipe EXCEPT !.domainDone = TRUE, !.pc = "generate"]
    /\ PipeUnchanged

\* processAuctionEnd, lines 233-237, and OpenAiGenerator.GenerateUrl.
PipeGenerate ==
    /\ pipe.pc = "generate"
    /\ LET args == GenerateUrlArguments(pipe.event.prompt, pipe.systemPrompt)
           request == generatePrompt(args.systemPrompt, args.prompt)
       IN pipe' = [pipe EXCEPT !.genCalled = TRUE,
                               !.genSystemPrompt = args.systemPrompt,
                               !.genPrompt = args.prompt,
                               !.imageRequest = request,
                               !.artUrl = ImageUrl(request),
                               !.pc = "uploadUrl"]
    /\ PipeUnchanged

\* NftUploader.Upload, lines 21-24: the image is pinned.
PipeUploadUrl ==
    /\ pipe.pc = "uploadUrl"
    /\ pipe' = [pipe EXCEPT !.imagePin = "ok",
                            !.imageHash = UploadUrl(pipe.artUrl),
                            !.pc = "uploadJson"]
    /\ PipeUnchanged

\* NftUploader.Upload, lines 26-35, called at processAuctionEnd line 239
\* with domain.Name, event.Prompt and the image url.
PipeUploadJson ==
    /\ pipe.pc = "uploadJson"
    /\ LET object == MetadataObject(CollectionName, pipe.event.prompt,
                                    pipe.imageHash)
       IN pipe' = [pipe EXCEPT !.jsonPin = "ok", !.jsonObject = object,
                               !.ipfsHash = UploadJson(object),
                               !.pc = "sign"]
    /\ PipeUnchanged

\* processAuctionEnd, lines 245-254.
PipeSign ==
    /\ pipe.pc = "sign"
    /\ pipe' = [pipe EXCEPT !.signed = TRUE,
                            !.signature = SignMintMessage(pipe.event.winner,
                                                          pipe.ipfsHash),
                            !.pc = "submit"]
    /\ PipeUnchanged

\* processAuctionEnd, lines 256-262: the transaction is sent.
PipeSubmit ==
    /\ pipe.pc = "submit"
    /\ pipe' = [pipe EXCEPT !.submitted = TRUE,
                            !.submittedId = pipe.event.id,
                            !.submittedUri = pipe.ipfsHash,
                            !.submittedSignature = pipe.signature,
                            !.pc = "idle"]
    /\ PipeUnchanged

\* The calls of processAuctionEnd that can return an error (at cacheGet:
\* the view call SystemPromptUri after a miss).
PipeFallible ==
    {"cacheGet", "head", "get", "domain", "generate", "uploadUrl",
     "uploadJson", "sign"}

\* A processAuctionEnd that logs the error of a call and goes on to the
\* transaction.
PipeFailsWithoutReturn ==
    /\ pipe.pc \in PipeFallible
    /\ pipe.pc = "cacheGet" => ~pipe.cache[Hex(pipe.event.coll)].hit
    /\ pipe' = [pipe EXCEPT !.failedAt = pipe.pc, !.pc = "submit",
                            !.uriCalled = @ \/ pipe.pc = "cacheGet"]
    /\ PipeUnchanged

\* processAuctionEnd: the call at pc returns an error, which is logged, and
\* the task returns (HEAD and GET: readSystemPromptFromUri returns the
\* error; the two pins: NftUploader.Upload returns it).
PipeFails ==
    /\ pipe.pc \in PipeFallible
    /\ pipe.pc = "cacheGet" => ~pipe.cache[Hex(pipe.event.coll)].hit
    /\ pipe' = [pipe EXCEPT
                  !.failedAt = pipe.pc,
                  !.uriCalled = @ \/ pipe.pc = "cacheGet",
                  !.imagePin = IF pipe.pc = "uploadUrl" THEN "failed" ELSE @,
                  !.jsonPin = IF pipe.pc = "uploadJson" THEN "failed" ELSE @,
                  !.pc = "idle"]
    /\ PipeUnchanged

\* ----------------------------------------------------------------- keystore

\* ------------------------------------------------------------ sealed keystore

\* The enclave identities a process can run under, and the 32-byte key
\* that DeriveKeyWithSubject("/agent/sealing", "teeception") gives each.
Identities == {"enclave A", "enclave B"}

DerivedKey(identity) ==
    IF identity = "enclave A" THEN "sealing key A" ELSE "sealing key B"

Nonces == {"nonce 1", "nonce 2"}

\* A byte string is a sequence of elements: plain bytes, and the output of
\* AES-GCM for (key, nonce, data), which stands for ciphertext and tag.
PlainByte(v) == [v |-> v, key |-> "none", nonce |-> "none", data |-> <<>>]

SealedBox(key, nonce, data) ==
    [v |-> "aead", key |-> key, nonce |-> nonce, data |-> data]

NonceBytes(nonce) == [i \in 1..NonceSize |-> PlainByte(nonce)]

\* gcm.Seal(nonce, nonce, data, nil): the nonce, then ciphertext and tag.
gcmSeal(key, nonce, data) ==
    NonceBytes(nonce) \o <<SealedBox(key, nonce, data)>>

\* An AEAD that does not authenticate the key.
gcmOpenAnyKey(key, nonceBytes, ciphertext) ==
    IF /\ Len(ciphertext) = 1
       /\ ciphertext[1].v = "aead"
       /\ NonceBytes(ciphertext[1].nonce) = nonceBytes
    THEN [err |-> FALSE, plaintext |-> ciphertext[1].data]
    ELSE [err |-> TRUE, plaintext |-> <<>>]

\* gcm.Open(nil, nonce, ciphertext, nil).
gcmOpen(key, nonceBytes, ciphertext) ==
    IF /\ Len(ciphertext) = 1
       /\ ciphertext[1].v = "aead"
       /\ ciphertext[1].key = key
       /\ NonceBytes(ciphertext[1].nonce) = nonceBytes
    THEN [err |-> FALSE, plaintext |-> ciphertext[1].data]
    ELSE [err |-> TRUE, plaintext |-> <<>>]

\* What the services a call depends on do: the derivation service
\* answers or not, rand.Reader delivers or not and which nonce, and
\* os.WriteFile writes the file, or fails leaving it as it was, or fails
\* after truncating it.
WriteOutcomes == {"written", "failed", "failed truncated"}

Envs ==
    {env \in [tappdOk : BOOLEAN, randOk : BOOLEAN, nonce : Nonces,
              write : WriteOutcomes] :
        ~env.randOk => env.nonce = "nonce 1"}

\* A read depends on the derivation service only.
ReadEnvs == {env \in Envs : env.randOk /\ env.nonce = "nonce 1"
                              /\ env.write = "written"}

NoFile == [exists |-> FALSE, bytes |-> <<>>]

\* os.WriteFile(filePath, bytes, 0600).
osWriteFile(file, bytes, outcome) ==
    IF outcome = "written"
    THEN [err |-> FALSE, disk |-> [exists |-> TRUE, bytes |-> bytes]]
    ELSE IF outcome = "failed truncated"
    THEN [err |-> TRUE, disk |-> [exists |-> TRUE, bytes |-> <<>>]]
    ELSE [err |-> TRUE, disk |-> file]

\* getSealingKey.
getSealingKey(identity, env) ==
    IF env.tappdOk
    THEN [err |-> FALSE, key |-> DerivedKey(identity)]
    ELSE [err |-> TRUE, key |-> "none"]

writeFilePlain(file, env, data) == osWriteFile(file, data, env.write)

readFilePlain(file) ==
    IF file.exists
    THEN [err |-> "none", data |-> file.bytes]
    ELSE [err |-> "missing", data |-> <<>>]

\* writeFileSealed (aes.NewCipher and cipher.NewGCM do not fail on a key of
\* 32 bytes).
writeFileSealed(file, identity, env, data) ==
    LET k == getSealingKey(identity, env)
    IN IF k.err \/ ~env.randOk
       THEN [err |-> TRUE, disk |-> file]
       ELSE osWriteFile(file, gcmSeal(k.key, env.nonce, data), env.write)

\* readFileSealed.
readFileSealed(file, identity, env) ==
    LET k == getSealingKey(identity, env)
    IN IF k.err THEN [err |-> "derive", data |-> <<>>]
       ELSE IF ~file.exists THEN [err |-> "missing", data |-> <<>>]
       ELSE IF Len(file.bytes) < NonceSize
       THEN [err |-> "short", data |-> <<>>]
       ELSE LET o == gcmOpen(k.key, SubSeq(file.bytes, 1, NonceSize),
                             SubSeq(file.bytes, NonceSize + 1,
                                    Len(file.bytes)))
            IN IF o.err THEN [err |-> "aead", data |-> <<>>]
               ELSE [err |-> "none", data |-> o.plaintext]

\* WriteSealedFile: plain is debug.IsDebugPlainSetup().
WriteSealedFile(file, plain, identity, env, data) ==
    IF plain THEN writeFilePlain(file, env, data)
    ELSE writeFileSealed(file, identity, env, data)

\* ReadSealedFile.
ReadSealedFile(file, plain, identity, env) ==
    IF plain THEN readFilePlain(file)
    ELSE readFileSealed(file, identity, env)

\* A SetupResult: the two keys, and config for its eight configuration
\* fields, which generateSetup copies from the environment together.
Seeds == {"seed 1", "seed 2"}
RsaKeys == {"rsa key 1"}
Configs == {"config 1", "config 2"}
NoRecord == [seed |-> "none", rsa |-> "none", config |-> "none"]

\* json.Marshal of a SetupResult.
jsonMarshal(r) ==
    <<PlainByte("{"), PlainByte(r.seed), PlainByte(r.rsa),
      PlainByte(r.config), PlainByte("}")>>

\* json.Unmarshal into a SetupResult.
jsonUnmarshal(bytes) ==
    IF /\ Len(bytes) = 5
       /\ bytes[1] = PlainByte("{")
       /\ bytes[5] = PlainByte("}")
       /\ bytes[2].v \in Seeds /\ bytes[2] = PlainByte(bytes[2].v)
       /\ bytes[3].v \in RsaKeys /\ bytes[3] = PlainByte(bytes[3].v)
       /\ bytes[4].v \in Configs /\ bytes[4] = PlainByte(bytes[4].v)
    THEN [err |-> FALSE,
          result |-> [seed |-> bytes[2].v, rsa |-> bytes[3].v,
                      config |-> bytes[4].v]]
    ELSE [err |-> TRUE, result |-> NoRecord]

\* The byte records handed to WriteSealedFile.
ByteRecords ==
    {<<>>, <<PlainByte("not json")>>}
    \cup {jsonMarshal([seed |-> sd, rsa |-> k, config |-> "config 1"]) :
             sd \in Seeds, k \in RsaKeys}

\* readSetupResult / loadSetup: err names the step that failed.
loadSetup(file, plain, identity, env) ==
    LET r == ReadSealedFile(file, plain, identity, env)
    IN IF r.err # "none" THEN [err |-> r.err, result |-> NoRecord]
       ELSE LET u == jsonUnmarshal(r.data)
            IN IF u.err THEN [err |-> "json", result |-> NoRecord]
               ELSE [err |-> "none", result |-> u.result]

\* What generateSetup is given: what rand.Reader and rsa.GenerateKey
\* deliver, and the configuration NewConfigFromEnv has read.
Generations ==
    {gen \in [ok : BOOLEAN, seed : Seeds, rsa : RsaKeys, config : Configs] :
        ~gen.ok => gen.seed = "seed 1"}

\* generateSetup.
generateSetup(gen) ==
    IF gen.ok
    THEN [err |-> FALSE,
          result |-> [seed |-> gen.seed, rsa |-> gen.rsa,
                      config |-> gen.config]]
    ELSE [err |-> TRUE, result |-> NoRecord]

\* writeSetupResult.
writeSetupResult(file, plain, identity, env, r) ==
    WriteSealedFile(file, plain, identity, env, jsonMarshal(r))

\* initializeSetup: regen names what became of the regeneration.
initializeSetup(file, plain, identity, gen, env) ==
    LET g == generateSetup(gen)
        w == writeSetupResult(file, plain, identity, env, g.result)
    IN IF g.err
       THEN [err |-> TRUE, regen |-> "generate", result |-> NoRecord,
             disk |-> file]
       ELSE IF w.err
       THEN [err |-> TRUE, regen |-> "write", result |-> NoRecord,
             disk |-> w.disk]
       ELSE [err |-> FALSE, regen |-> "ok", result |-> g.result,
             disk |-> w.disk]

\* What a Setup call meets: the environment gives a configuration that
\* Validate accepts or not and has DEBUG_SHOW_SETUP=true or not, and the
\* services of the load, the generation and the write.  DEBUG_SHOW_SETUP
\* is read only after a load that succeeded, so one generation and one
\* write are enough with it; without a configuration nothing else is used.
SetupInputs ==
    {in \in [configOk : BOOLEAN, show : BOOLEAN, load : ReadEnvs,
             gen : Generations, store : Envs] :
        (in.show \/ ~in.configOk) =>
            /\ in.gen.ok /\ in.gen.seed = "seed 1" /\ in.gen.rsa = "rsa key 1"
            /\ in.show => in.gen.config = "config 1"
            /\ in.store = [tappdOk |-> TRUE, randOk |-> TRUE,
                           nonce |-> "nonce 1", write |-> "written"]}

\* slog.Info("setup output", "setupOutput", setupResult): the record is
\* written with its fields, the bytes of the seed among them; of the RSA
\* key, a pointer, the address is written.
LoggedRecord(r) == [seed |-> r.seed, rsa |-> "none", config |-> r.config]

\* A Setup that gives up when the load fails.
SetupWithoutRegeneration(file, plain, identity, in) ==
    LET l == loadSetup(file, plain, identity, in.load)
    IN IF ~in.configOk
       THEN [err |-> TRUE, loadErr |-> "none", regen |-> "none",
             result |-> NoRecord, disk |-> file, log |-> NoRecord]
       ELSE IF l.err # "none"
       THEN [err |-> TRUE, loadErr |-> l.err, regen |-> "none",
             result |-> NoRecord, disk |-> file, log |-> NoRecord]
       ELSE [err |-> FALSE, loadErr |-> "none", regen |-> "none",
             result |-> l.result, disk |-> file,
             log |-> IF in.show THEN LoggedRecord(l.result) ELSE NoRecord]

\* A Setup that overrides the loaded configuration with the environment's.
SetupTakingEnvironment(file, plain, identity, in) ==
    LET l == loadSetup(file, plain, identity, in.load)
        i == initializeSetup(file, plain, identity, in.gen, in.store)
    IN IF ~in.configOk
       THEN [err |-> TRUE, loadErr |-> "none", regen |-> "none",
             result |-> NoRecord, disk |-> file, log |-> NoRecord]
       ELSE IF l.err # "none"
       THEN [err |-> i.err, loadErr |-> l.err, regen |-> i.regen,
             result |-> i.result, disk |-> i.disk, log |-> NoRecord]
       ELSE [err |-> FALSE, loadErr |-> "none", regen |-> "none",
             result |-> [l.result EXCEPT !.config = in.gen.config],
             disk |-> file,
             log |-> IF in.show THEN LoggedRecord(l.result) ELSE NoRecord]

\* Setup.
Setup(file, plain, identity, in) ==
    LET l == loadSetup(file, plain, identity, in.load)
        i == initializeSetup(file, plain, identity, in.gen, in.store)
    IN IF ~in.configOk
       THEN [err |-> TRUE, loadErr |-> "none", regen |-> "none",
             result |-> NoRecord, disk |-> file, log |-> NoRecord]
       ELSE IF l.err # "none"
       THEN [err |-> i.err, loadErr |-> l.err, regen |-> i.regen,
             result |-> i.result, disk |-> i.disk, log |-> NoRecord]
       ELSE [err |-> FALSE, loadErr |-> "none", regen |-> "none",
             result |-> l.result, disk |-> file,
             log |-> IF in.show THEN LoggedRecord(l.result) ELSE NoRecord]

\* What the secure file holds, as far as the calls know: nothing, the data
\* of the last WriteSealedFile that returned nil (with the identity and the
\* mode of the writer), or something else.
NothingStored ==
    [kind |-> "none", data |-> <<>>, identity |-> "none", plain |-> FALSE]

Stored(data, identity, plain) ==
    [kind |-> "written", data |-> data, identity |-> identity,
     plain |-> plain]

DamagedStore == [NothingStored EXCEPT !.kind = "damaged"]

\* The process that uses the secure file: not running, or running under an
\* enclave identity with DEBUG_PLAIN_SETUP set or not; op is its last call
\* and the other fields what the call was given and returned.
NewBoot(pc, identity, plain, stored) ==
    [pc |-> pc, identity |-> identity, plain |-> plain, stored |-> stored,
     op |-> "none", tappdOk |-> FALSE, configOk |-> FALSE,
     err |-> "none", data |-> <<>>,
     loadErr |-> "none", regen |-> "none", result |-> NoRecord,
     generated |-> NoRecord, log |-> NoRecord, env |-> "none"]

IdleBoot == NewBoot("down", "none", FALSE, NothingStored)

KeystoreUnchanged ==
    UNCHANGED <<chainVars, indexerVars, schedVars, agentVars, pipe, run,
                signing, lastTx>>

\* A process starts in an enclave, with or without DEBUG_PLAIN_SETUP=true.
StartProcess(identity, plain) ==
    /\ boot.pc = "down"
    /\ boot' = NewBoot("up", identity, plain, boot.stored)
    /\ UNCHANGED disk
    /\ KeystoreUnchanged

StopProcess ==
    /\ boot.pc = "up"
    /\ boot' = NewBoot("down", "none", FALSE, boot.stored)
    /\ UNCHANGED disk
    /\ KeystoreUnchanged

\* What is stored after a write that returned w on the file `file'.
StoredAfter(w, file, data) ==
    IF ~w.err THEN Stored(data, boot.identity, boot.plain)
    ELSE IF w.disk # file THEN DamagedStore
    ELSE boot.stored

\* A call of WriteSealedFile(data).
CallWriteSealedFile(data, env) ==
    /\ boot.pc = "up"
    /\ LET w == WriteSealedFile(disk, boot.plain, boot.identity, env, data)
       IN /\ disk' = w.disk
          /\ boot' = [NewBoot("up", boot.identity, boot.plain,
                              StoredAfter(w, disk, data)) EXCEPT
                        !.op = "write", !.tappdOk = env.tappdOk,
                        !.err = IF w.err THEN "failed" ELSE "none",
                        !.data = data]
    /\ KeystoreUnchanged

\* A call of ReadSealedFile.
CallReadSealedFile(env) ==
    /\ boot.pc = "up"
    /\ LET r == ReadSealedFile(disk, boot.plain, boot.identity, env)
       IN boot' = [NewBoot("up", boot.identity, boot.plain, boot.stored)
                     EXCEPT !.op = "read", !.tappdOk = env.tappdOk,
                            !.err = r.err, !.data = r.data]
    /\ UNCHANGED disk
    /\ KeystoreUnchanged

\* A call of Setup.
CallSetup(in) ==
    /\ boot.pc = "up"
    /\ LET r == Setup(disk, boot.plain, boot.identity, in)
           g == generateSetup(in.gen).result
           w == [err |-> r.regen # "ok", disk |-> r.disk]
       IN /\ disk' = r.disk
          /\ boot' = [NewBoot("up", boot.identity, boot.plain,
                              StoredAfter(w, disk, jsonMarshal(g))) EXCEPT
                        !.op = "setup", !.tappdOk = in.store.tappdOk,
                        !.configOk = in.configOk,
                        !.env = IF in.configOk THEN in.gen.config ELSE "none",
                        !.err = IF r.err THEN "failed" ELSE "none",
                        !.loadErr = r.loadErr, !.regen = r.regen,
                        !.result = r.result,
                        !.log = r.log,
                        !.generated = IF r.regen \in {"ok", "write"}
                                      THEN g ELSE NoRecord]
    /\ KeystoreUnchanged

\* Something else than the process changes the file: it is removed, cut
\* to n bytes, or its last byte is overwritten.  What the last call
\* returned is no longer about the file as it is.
DamageFile(kind, n) ==
    /\ disk.exists
    /\ n < Len(disk.bytes)
    /\ disk' = IF kind = "remove" THEN NoFile
               ELSE IF kind = "cut"
               THEN [disk EXCEPT !.bytes = SubSeq(disk.bytes, 1, n)]
               ELSE [disk EXCEPT !.bytes[Len(disk.bytes)] =
                                   PlainByte("overwritten")]
    /\ boot' = NewBoot(boot.pc, boot.identity, boot.plain, DamagedStore)
    /\ KeystoreUnchanged

\* ------------------------------------------------ process and HTTP server

\* common.AddressLength: the bytes of a common.Address.
AddressLength == 20
\* http.StatusOK and http.StatusInternalServerError.
StatusOK == 200
StatusInternalServerError == 500

\* The values of API_IP_PORT: not set, or an address to bind.
Binds == {"", "0.0.0.0:8080"}

\* The factory addresses a worker can be configured with.
FactoryAddresses == {FactoryAddress, RogueFactory}

\* NewWallet and Wallet.Address: the address of the key made from a seed.
WalletAddress(seed) ==
    IF seed = "seed 1" THEN "wallet 1" ELSE "wallet 2"

\* common.Address.Bytes.
AddressBytes(addr) ==
    [i \in 1..AddressLength |-> [of |-> addr, index |-> i]]

\* common.Address.String.
AddressString(addr) == <<"0x", addr>>

\* A report data with the contract address first.
MarshalBinaryContractFirst(r) ==
    AddressBytes(r.ContractAddress) \o AddressBytes(r.Address)

\* ReportData.MarshalBinary.
MarshalBinary(r) ==
    AddressBytes(r.Address) \o AddressBytes(r.ContractAddress)

generateReportDataBytes(address, contractAddress) ==
    MarshalBinary([Address |-> address, ContractAddress |-> contractAddress])

NoQuote == [reportData |-> <<>>]

\* TappdClient.TdxQuote: the quote of the enclave for reportData, or an
\* error.
TdxQuote(reportData, ok) ==
    IF ok THEN [err |-> <<>>, quote |-> [reportData |-> reportData]]
    ELSE [err |-> <<"tdx quote failed">>, quote |-> NoQuote]

\* Agent.Quote.
Quote(address, factoryAddress, tdxOk) ==
    TdxQuote(generateReportDataBytes(address, factoryAddress), tdxOk)

NoResponse ==
    [status |-> 0, kind |-> "none", text |-> <<>>, quote |-> NoQuote]

\* c.String(code, text) and c.JSON(code, quote).
StringResponse(code, text) ==
    [status |-> code, kind |-> "text", text |-> text, quote |-> NoQuote]

JsonResponse(code, quote) ==
    [status |-> code, kind |-> "json", text |-> <<>>, quote |-> quote]

\* A handler that answers 200 whatever Quote returned.
QuoteHandlerAlwaysOK(q) == JsonResponse(StatusOK, q.quote)

\* generateRouter, lines 23-31: the handler of GET /quote.
QuoteHandler(q) ==
    IF q.err # <<>> THEN StringResponse(StatusInternalServerError, q.err)
    ELSE JsonResponse(StatusOK, q.quote)

\* generateRouter, lines 15-17: the handler of GET /address.
AddressHandler(address) == StringResponse(StatusOK, AddressString(address))

\* Config.Validate: the other variables are set or not, then API_IP_PORT.
Validate(config) ==
    IF ~config.othersSet THEN "a variable is required"
    ELSE IF config.ApiIpPort = "" THEN "API_IP_PORT is required"
    ELSE "none"

\* The process before main: nothing runs.
OffRun ==
    [pc |-> "off", entry |-> "none", exit |-> "none", bind |-> "",
     seed |-> "none",
     factory |-> ZeroAddress, server |-> "none", ctx |-> "live",
     indexerTask |-> "none", monitorTask |-> "none", chanClosed |-> FALSE,
     op |-> "none", tdxOk |-> FALSE, report |-> <<>>,
     response |-> NoResponse]

RunUnchanged ==
    UNCHANGED <<chainVars, indexerVars, schedVars, agentVars, pipe, disk,
                boot, signing, lastTx>>

\* main, lines 14-30: Setup validates the environment, then loads or
\* generates the record; NewAgentConfigFromSetupResult and NewAgent follow.
\* An error of any of them is logged and main returns.
MainCreatesAgent(config, seed, factory, ok) ==
    /\ run.pc = "off"
    /\ run' = IF Validate(config) # "none"
              THEN [OffRun EXCEPT !.pc = "exited", !.entry = "main",
                                  !.exit = Validate(config),
                                  !.bind = config.ApiIpPort]
              ELSE IF ~ok
              THEN [OffRun EXCEPT !.pc = "exited", !.entry = "main",
                                  !.exit = "setup failed",
                                  !.bind = config.ApiIpPort]
              ELSE [OffRun EXCEPT !.pc = "created", !.entry = "main",
                                  !.bind = config.ApiIpPort,
                                  !.seed = seed, !.factory = factory]
    /\ RunUnchanged

\* NewAgent called with an AgentConfig of the caller's making, as the
\* tests of the package do.
NewAgent(bind, seed, factory) ==
    /\ run.pc = "off"
    /\ run' = [OffRun EXCEPT !.pc = "created", !.entry = "NewAgent",
                             !.bind = bind, !.seed = seed,
                             !.factory = factory]
    /\ RunUnchanged

\* Agent.StartServer, lines 61-84.
StartServer(r) ==
    IF r.bind = "" THEN r ELSE [r EXCEPT !.server = "listening"]

\* Agent.Start, lines 180-186: StartServer, then Indexer.Start is entered
\* and runs its first indexEvents.
AgentStart ==
    /\ run.pc = "created"
    /\ run' = [StartServer(run) EXCEPT !.pc = "starting"]
    /\ RunUnchanged

\* Indexer.Start, lines 132-134, and Agent.Start, line 188: the first
\* indexEvents has returned, the two ticker tasks are launched and Start
\* enters its loop.
IndexerStartReturns ==
    /\ run.pc = "starting"
    /\ started
    /\ scan.pc = "idle"
    /\ run' = [run EXCEPT !.pc = "running", !.indexerTask = "running",
                          !.monitorTask = "running"]
    /\ RunUnchanged

\* The indexer of a started process takes its steps: the first indexEvents
\* inside Indexer.Start, then those of indexEventsTask until it returns.
IndexerRuns == run.pc = "starting" \/ run.indexerTask = "running"

\* monitorAuctionsTask has been launched and has not returned.
MonitorRuns == run.monitorTask = "running"

\* Agent.Start is in its loop.
LoopRuns == run.pc = "running"

\* StartServer, lines 71-75: ListenAndServe returns an error.
ServerFails ==
    /\ run.server = "listening"
    /\ run' = [run EXCEPT !.server = "failed"]
    /\ RunUnchanged

\* GET /address, through the router.
GetAddress ==
    /\ run.pc \in {"created", "starting", "running", "returned"}
    /\ run' = [run EXCEPT !.op = "GET /address", !.tdxOk = FALSE,
                          !.report = <<>>,
                          !.response = AddressHandler(WalletAddress(run.seed))]
    /\ RunUnchanged

\* GET /quote, through the router.
GetQuote(tdxOk) ==
    /\ run.pc \in {"created", "starting", "running", "returned"}
    /\ run' = [run EXCEPT
                 !.op = "GET /quote",
                 !.tdxOk = tdxOk,
                 !.report = generateReportDataBytes(WalletAddress(run.seed),
                                                    run.factory),
                 !.response = QuoteHandler(Quote(WalletAddress(run.seed),
                                                 run.factory, tdxOk))]
    /\ RunUnchanged

\* The root context is cancelled. The context of main is
\* context.Background(), which nothing cancels; a caller of NewAgent and
\* Start passes a context of its own.
CancelRoot ==
    /\ run.entry = "NewAgent"
    /\ run.pc \in {"created", "starting", "running"}
    /\ run.ctx = "live"
    /\ run' = [run EXCEPT !.ctx = "cancelled"]
    /\ RunUnchanged

\* StartServer, lines 77-82.
ServerShutdown ==
    /\ run.ctx = "cancelled"
    /\ run.server = "listening"
    /\ run' = [run EXCEPT !.server = "shutdown"]
    /\ RunUnchanged

\* indexEventsTask, lines 212-214.
IndexerTaskStops ==
    /\ run.ctx = "cancelled"
    /\ run.indexerTask = "running"
    /\ scan.pc = "idle"
    /\ run' = [run EXCEPT !.indexerTask = "stopped"]
    /\ RunUnchanged

\* monitorAuctionsTask, lines 192-194.
MonitorTaskStops ==
    /\ run.ctx = "cancelled"
    /\ run.monitorTask = "running"
    /\ sweep.pc = "idle"
    /\ run' = [run EXCEPT !.monitorTask = "stopped"]
    /\ RunUnchanged

\* Agent.Start, lines 197-198: Start returns ctx.Err().
StartReturns ==
    /\ run.pc = "running"
    /\ run.ctx = "cancelled"
    /\ run' = [run EXCEPT !.pc = "returned"]
    /\ RunUnchanged

\* ------------------------------------------------------------------ wallet

\* The recipients, uris and EIP-712 domains a Mint message is signed for,
\* and the deployed collections that verify it.
Recipients == {User, "u2"}
Uris == {"ipfs hash 1", "ipfs hash 2"}
ChainIds == {1, 31337}
Contracts == {"c1", "c2"}
Domains ==
    [Name : {CollectionName, "other name"}, Version : {"1", "2"},
     ChainId : ChainIds, VerifyingContract : Contracts]
Deployments ==
    [name : {CollectionName, "other name"}, chainId : ChainIds,
     address : Contracts]

\* keccak256, kept injective: the hash of x is x under a tag.
Keccak256(x) == [hash |-> x]

\* The type of a struct as EIP-712 encodes it: its name and its members in
\* the order of their declaration.
MintType ==
    [name |-> "Mint",
     members |-> <<[type |-> "address", name |-> "to"],
                   [type |-> "string", name |-> "uri"]>>]

DomainType ==
    [name |-> "EIP712Domain",
     members |-> <<[type |-> "string", name |-> "name"],
                   [type |-> "string", name |-> "version"],
                   [type |-> "uint256", name |-> "chainId"],
                   [type |-> "address", name |-> "verifyingContract"]>>]

\* eip712Types, part_011 lines 14-25, as apitypes.TypedData.EncodeType
\* writes the primary type.
eip712Types(primaryType) ==
    IF primaryType = "Mint" THEN MintType ELSE DomainType

\* MINT_TYPEHASH, YayoiCollection.sol line 240.
MINT_TYPEHASH == Keccak256(MintType)

\* EIP712Upgradeable: the type hash of the domain.
TYPE_HASH == Keccak256(DomainType)

\* The digest of typed data: "\x19\x01", the domain separator, the hash of
\* the struct.
TypedDataDigest(domainSeparator, structHash) ==
    Keccak256([prefix |-> "1901", domainSeparator |-> domainSeparator,
               structHash |-> structHash])

\* A hash of the typed data that leaves the recipient out of the struct.
TypedDataHashWithoutRecipient(to, uri, domain) ==
    TypedDataDigest(
        Keccak256([typeHash |-> Keccak256(eip712Types("EIP712Domain")),
                   name |-> Keccak256(domain.Name),
                   version |-> Keccak256(domain.Version),
                   chainId |-> domain.ChainId,
                   verifyingContract |-> domain.VerifyingContract]),
        Keccak256([typeHash |-> Keccak256(eip712Types("Mint")),
                   to |-> ZeroAddress,
                   uri |-> Keccak256(uri)]))

\* SignMintMessage, lines 43-56, and apitypes.TypedDataAndHash: the digest
\* of the typed data with primary type Mint, message {to, uri} and the
\* domain given.
TypedDataHash(to, uri, domain) ==
    TypedDataDigest(
        Keccak256([typeHash |-> Keccak256(eip712Types("EIP712Domain")),
                   name |-> Keccak256(domain.Name),
                   version |-> Keccak256(domain.Version),
                   chainId |-> domain.ChainId,
                   verifyingContract |-> domain.VerifyingContract]),
        Keccak256([typeHash |-> Keccak256(eip712Types("Mint")),
                   to |-> to,
                   uri |-> Keccak256(uri)]))

\* ECDSA: a signature of a digest by the key made from a seed, and the
\* address recovered from a signature over a digest.  Over another digest
\* than the signed one the recovery gives the address of a key nobody
\* holds, and from bytes that are no signature the zero address.
Sign(seed, digest) == [seed |-> seed, digest |-> digest]

UnknownSigner == "unknown signer"

Recover(digest, signature) ==
    IF signature.seed \notin Seeds THEN ZeroAddress
    ELSE IF signature.digest = digest THEN WalletAddress(signature.seed)
    ELSE UnknownSigner

\* Wallet.SignMintMessage of the wallet made from seed.
WalletSignMintMessage(seed, to, uri, domain) ==
    Sign(seed, TypedDataHash(to, uri, domain))

\* YayoiCollection.initialize, line 360, and EIP712Upgradeable.eip712Domain:
\* the domain of a deployed collection.
eip712Domain(contract) ==
    [Name |-> contract.name, Version |-> "1", ChainId |-> contract.chainId,
     VerifyingContract |-> contract.address]

\* EIP712Upgradeable._hashTypedDataV4 in a deployed collection.
hashTypedDataV4(contract, structHash) ==
    TypedDataDigest(
        Keccak256([typeHash |-> TYPE_HASH,
                   name |-> Keccak256(contract.name),
                   version |-> Keccak256("1"),
                   chainId |-> contract.chainId,
                   verifyingContract |-> contract.address]),
        structHash)

\* finishPromptAuction, lines 462-464: the signer the collection recovers.
RecoveredSigner(contract, highestBidder, uri, signature) ==
    LET structHash == Keccak256([typeHash |-> MINT_TYPEHASH,
                                 to |-> highestBidder,
                                 uri |-> Keccak256(uri)])
    IN Recover(hashTypedDataV4(contract, structHash), signature)

NoSigning ==
    [done |-> FALSE, seed |-> "none", to |-> ZeroAddress, uri |-> "",
     domain |-> eip712Domain([name |-> "", chainId |-> 0,
                              address |-> ZeroAddress]),
     contract |-> [name |-> "", chainId |-> 0, address |-> ZeroAddress],
     recovered |-> ZeroAddress, signer |-> ZeroAddress]

WalletUnchanged ==
    UNCHANGED <<chainVars, indexerVars, schedVars, agentVars, pipe, disk,
                boot, run, lastTx>>

\* The wallet made from seed signs Mint(to, uri) under a domain; the
\* address is recovered from the signature over the same typed data, and a
\* deployed collection whose highest bidder is to recovers the signer for
\* the same uri.
SignAndRecover(seed, to, uri, domain, contract) ==
    /\ LET signature == WalletSignMintMessage(seed, to, uri, domain)
       IN signing' =
            [done |-> TRUE, seed |-> seed, to |-> to, uri |-> uri,
             domain |-> domain, contract |-> contract,
             recovered |-> Recover(TypedDataHash(to, uri, domain), signature),
             signer |-> RecoveredSigner(contract, to, uri, signature)]
    /\ WalletUnchanged

\* ----------------------------------------- finishPromptAuction, by anyone

\* YayoiFactory.isAuthorizedSigner: the wallet of the agent is authorised.
AuthorizedSigners == {WalletAddress("seed 1")}

\* The collection at address a as deployed: its name and its chain.
Deployment(a) == [name |-> CollectionName, chainId |-> 1, address |-> a]

\* 65 bytes that are no signature.
MalformedSignature ==
    Sign("malformed",
         TypedDataHash(ZeroAddress, "", eip712Domain(Deployment(ZeroAddress))))

\* The signatures a transaction can carry: of either wallet, for either
\* recipient and uri, under the domain of the collection or another one,
\* and bytes that are no signature.
TxSignatures(a) ==
    {WalletSignMintMessage(seed, to, uri, domain) :
        seed \in Seeds, to \in Recipients, uri \in Uris,
        domain \in {eip712Domain(Deployment(a)),
                    eip712Domain([Deployment(a) EXCEPT !.chainId = 31337])}}
    \cup {MalformedSignature}

\* A finishPromptAuction without the require on auction.finished.
finishPromptAuctionAgain(c, now, contract, auctionId, uri, signature) ==
    LET highestBidder == IF auctionId \in c.bids THEN User ELSE ZeroAddress
        end == c.creationTimestamp + (auctionId + 1) * c.auctionDuration
        signer == RecoveredSigner(contract, highestBidder, uri, signature)
    IN IF now < end
       THEN [ok |-> FALSE, reason |-> "Auction still active", coll |-> c]
       ELSE IF highestBidder = ZeroAddress
       THEN [ok |-> FALSE, reason |-> "No bids placed", coll |-> c]
       ELSE IF signer \notin AuthorizedSigners
       THEN [ok |-> FALSE, reason |-> "Invalid signature", coll |-> c]
       ELSE [ok |-> TRUE, reason |-> "none",
             coll |-> [c EXCEPT
                         !.finished = @ \cup {auctionId},
                         !.tokens = Append(@, [uri |-> uri,
                                               owner |-> highestBidder])]]

\* YayoiCollection.finishPromptAuction in the collection c at time now: a
\* revert leaves the collection as it was.
finishPromptAuction(c, now, contract, auctionId, uri, signature) ==
    LET highestBidder == IF auctionId \in c.bids THEN User ELSE ZeroAddress
        end == c.creationTimestamp + (auctionId + 1) * c.auctionDuration
        signer == RecoveredSigner(contract, highestBidder, uri, signature)
    IN IF now < end
       THEN [ok |-> FALSE, reason |-> "Auction still active", coll |-> c]
       ELSE IF auctionId \in c.finished
       THEN [ok |-> FALSE, reason |-> "Auction already finished", coll |-> c]
       ELSE IF highestBidder = ZeroAddress
       THEN [ok |-> FALSE, reason |-> "No bids placed", coll |-> c]
       ELSE IF signer \notin AuthorizedSigners
       THEN [ok |-> FALSE, reason |-> "Invalid signature", coll |-> c]
       ELSE [ok |-> TRUE, reason |-> "none",
             coll |-> [c EXCEPT
                         !.finished = @ \cup {auctionId},
                         !.tokens = Append(@, [uri |-> uri,
                                               owner |-> highestBidder])]]

NoTx ==
    [called |-> FALSE, coll |-> ZeroAddress, id |-> 0, uri |-> "",
     signature |-> MalformedSignature, ok |-> FALSE, reason |-> "none"]

\* Anyone sends finishPromptAuction(auctionId, uri, signature) to the
\* collection a.
SendFinishPromptAuction(a, auctionId, uri, signature) ==
    /\ coll[a].created
    /\ LET r == finishPromptAuction(coll[a], time, Deployment(a), auctionId,
                                    uri, signature)
       IN /\ coll' = [coll EXCEPT ![a] = r.coll]
          /\ chainLogs' = IF r.ok
                          THEN Append(chainLogs,
                                      PromptAuctionFinishedLog(a, auctionId))
                          ELSE chainLogs
          /\ lastTx' = [called |-> TRUE, coll |-> a, id |-> auctionId,
                        uri |-> uri, signature |-> signature, ok |-> r.ok,
                        reason |-> r.reason]
    /\ UNCHANGED <<time, indexerVars, schedVars, agentVars, pipe, disk, boot,
                   run, signing>>

\* --------------------------------------------------------------------- spec

\* The sequences without repetition over the subsets of S.
Orders(S) ==
    {o \in UNION {[1..n -> S] : n \in 0..Cardinality(S)} :
        \A i, j \in 1..Len(o) : i # j => o[i] # o[j]}

\* The ids of the auctions of a collection (created at c, duration d) that
\* have ended at time t.
EndedIds(c, d, t) == {id \in 0..MaxTime : c + (id + 1) * d <= t}

\* The chain on which the agent is started.  Either nothing has been
\* created yet, or an earlier run of the agent has worked on it: a
\* collection created at c with duration d has had the bids `bids', and
\* the auctions of `order' have been finished, in that order (settlement
\* tasks complete in any order, and any of them can have failed).
InitChain ==
    \E t \in 0..MaxTime :
      /\ time = t
      /\ \/ /\ chainLogs = <<>>
            /\ coll = [a \in Addr |-> NoCollection]
         \/ \E a \in Addr, c \in 0..t, d \in Durations :
            \E bids \in SUBSET (0..((t - c) \div d)) :
            \E order \in Orders(bids \cap EndedIds(c, d, t)) :
              /\ chainLogs = <<CollectionCreatedLog(FactoryAddress, a)>>
                     \o [i \in 1..Len(order) |->
                           PromptAuctionFinishedLog(a, order[i])]
              /\ coll = [x \in Addr |->
                   IF x # a THEN NoCollection
                   ELSE [created |-> TRUE, creationTimestamp |-> c,
                         auctionDuration |-> d, bids |-> bids,
                         finished |-> {order[i] : i \in 1..Len(order)},
                         tokens |-> [i \in 1..Len(order) |->
                                       [uri |-> MetadataHash(a, order[i]),
                                        owner |-> User]]]]

\* A chain on which nothing has happened yet.
FreshChain ==
    /\ time = 0
    /\ chainLogs = <<>>
    /\ coll = [a \in Addr |-> NoCollection]

\* NewAgent / NewIndexer.
InitWorker ==
    /\ cache = [a \in {} |-> ZeroInfo]
    /\ lastIndexedBlock = 0
    /\ scan = IdleScan
    /\ initTasks = [a \in Addr |-> "none"]
    /\ started = FALSE
    /\ sweep = IdleSweep
    /\ forks = <<>>
    /\ settleTasks = {}
    /\ chan = <<>>
    /\ emitted = <<>>
    /\ procTasks = {}
    /\ mu = "free"
    /\ pipe = IdlePipe
    /\ disk = NoFile
    /\ boot = IdleBoot
    /\ run = OffRun
    /\ signing = NoSigning
    /\ lastTx = NoTx

Init == InitChain /\ InitWorker

\* The agent started on a chain on which nothing has happened yet.
InitFresh == FreshChain /\ InitWorker

ChainStep ==
    \/ \E a \in Addr, d \in Durations : CreateCollection(a, d)
    \/ \E a \in Addr : SuggestPrompt(a)
    \/ Tick

IndexerStep ==
    \/ ScanBegin
    \/ ScanBlockNumberFails
    \/ ScanChunk
    \/ ScanChunkFails
    \/ ScanFinish
    \/ \E a \in Addr : InitSetFlag(a)
    \/ \E a \in Addr : InitFails(a)
    \/ \E a \in Addr : InitSetTimestamp(a)
    \/ \E a \in Addr : InitSetDuration(a)

SchedulerStep ==
    \/ SweepTick
    \/ \E a \in Addr : SweepVisit(a)
    \/ SweepLoopIter
    \/ SweepLoopExit
    \/ SweepEnd
    \/ \E i \in settleTasks : SettleRun(i)
    \/ \E i \in settleTasks : SettleFails(i)

\* The chain, the indexer, the scheduler with the settle goroutines it
\* forks, and the receive loop of Agent.Start.  What the processAuctionEnd
\* goroutines do with the tasks is in SpecAgent: it changes the chain only
\* by finishing auctions, which a running indexer ignores for a collection
\* whose NextAuctionIdInitialized is set and which InitChain covers for a
\* later run.
Next ==
    \/ ChainStep
    \/ IndexerStep
    \/ SchedulerStep
    \/ AgentReceive

Spec == Init /\ [][Next]_vars

\* The agent on a chain where contracts other than the factory and its
\* collections emit logs with the two event signatures; the clock stops at
\* ShortMaxTime.
NextRogue ==
    \/ \E a \in Addr, d \in Durations : CreateCollection(a, d)
    \/ \E a \in Addr : SuggestPrompt(a)
    \/ \E l \in RogueLogs : EmitRogueLog(l)
    \/ TickUpTo(ShortMaxTime)
    \/ IndexerStep
    \/ SchedulerStep
    \/ AgentReceive

SpecRogue == InitFresh /\ [][NextRogue]_vars

\* The chain and the indexer alone, with a chain client that can report a
\* head behind the one it reported before.
NextIndexer ==
    \/ ChainStep
    \/ IndexerStep
    \/ ScanBeginLagging

SpecIndexer == Init /\ [][NextIndexer]_vars

\* The processAuctionEnd goroutines that Agent.Start forks.
AgentStep ==
    \/ AgentReceive
    \/ \E t \in procTasks : ProcPipeline(t)
    \/ \E t \in procTasks : ProcPipelineFails(t)
    \/ \E t \in procTasks : ProcLock(t)
    \/ \E t \in procTasks : ProcSubmit(t)

\* The whole agent, the settlement tasks included.
NextAgent ==
    \/ ChainStep
    \/ IndexerStep
    \/ SchedulerStep
    \/ AgentStep

SpecAgent == Init /\ [][NextAgent]_vars

\* The agent when no call fails: the chain RPC, the prompt fetch, the image
\* generation, the pinning and the signing all succeed.  The clock stops at
\* ShortMaxTime.
NextLive ==
    \/ \E a \in Addr, d \in Durations : CreateCollection(a, d)
    \/ \E a \in Addr : SuggestPrompt(a)
    \/ TickUpTo(ShortMaxTime)
    \/ ScanBegin
    \/ ScanChunk
    \/ ScanFinish
    \/ \E a \in Addr : InitSetFlag(a)
    \/ \E a \in Addr : InitSetTimestamp(a)
    \/ \E a \in Addr : InitSetDuration(a)
    \/ SweepTick
    \/ \E a \in Addr : SweepVisit(a)
    \/ SweepLoopIter
    \/ SweepLoopExit
    \/ SweepEnd
    \/ \E i \in settleTasks : SettleRun(i)
    \/ AgentReceive
    \/ \E t \in procTasks : ProcPipeline(t)
    \/ \E t \in procTasks : ProcLock(t)
    \/ \E t \in procTasks : ProcSubmit(t)

\* Every goroutine of the agent that can take a step eventually takes one:
\* the tickers keep firing and the Go scheduler starves no goroutine.  The
\* chain is under no obligation.
Fairness ==
    /\ WF_vars(ScanBegin)
    /\ WF_vars(ScanChunk)
    /\ WF_vars(ScanFinish)
    /\ WF_vars(\E a \in Addr : InitSetFlag(a))
    /\ WF_vars(\E a \in Addr : InitSetTimestamp(a))
    /\ WF_vars(\E a \in Addr : InitSetDuration(a))
    /\ WF_vars(SweepTick)
    /\ WF_vars(\E a \in Addr : SweepVisit(a))
    /\ WF_vars(SweepLoopIter)
    /\ WF_vars(SweepLoopExit)
    /\ WF_vars(SweepEnd)
    /\ WF_vars(\E i \in settleTasks : SettleRun(i))
    /\ WF_vars(AgentReceive)
    /\ WF_vars(\E t \in procTasks : ProcPipeline(t))
    /\ WF_vars(\E t \in procTasks : ProcLock(t))
    /\ WF_vars(\E t \in procTasks : ProcSubmit(t))

LiveSpec == InitFresh /\ [][NextLive]_vars /\ Fairness

\* One settlement after the other, statement by statement, with every
\* answer the services it calls can give.
NextPipeline ==
    \/ \E e \in Events : PipeStart(e)
    \/ PipeCacheHit
    \/ PipeCacheMiss
    \/ \E a \in PipeCollections : PipeCacheExpires(a)
    \/ \E length \in ContentLengths : PipeHead(length)
    \/ \E body \in Bodies : PipeGet(body)
    \/ PipeDomain
    \/ PipeGenerate
    \/ PipeUploadUrl
    \/ PipeUploadJson
    \/ PipeSign
    \/ PipeSubmit
    \/ PipeFails

SpecPipeline == InitFresh /\ [][NextPipeline]_vars

\* The secure file and the processes that start, use it and stop, under
\* either enclave identity and either debug mode.
NextKeystore ==
    \/ \E identity \in Identities, plain \in BOOLEAN :
          StartProcess(identity, plain)
    \/ StopProcess
    \/ \E data \in ByteRecords, env \in Envs : CallWriteSealedFile(data, env)
    \/ \E env \in ReadEnvs : CallReadSealedFile(env)
    \/ \E in \in SetupInputs : CallSetup(in)
    \/ \E kind \in {"remove", "cut", "overwrite"}, n \in 0..NonceSize :
          DamageFile(kind, n)

SpecKeystore == InitFresh /\ [][NextKeystore]_vars

\* The process from main or NewAgent to the cancellation of its root
\* context, and the requests its router answers.
NextApi ==
    \/ \E config \in [othersSet : BOOLEAN, ApiIpPort : Binds],
          seed \in Seeds, factory \in FactoryAddresses, ok \in BOOLEAN :
          MainCreatesAgent(config, seed, factory, ok)
    \/ \E bind \in Binds, seed \in Seeds, factory \in FactoryAddresses :
          NewAgent(bind, seed, factory)
    \/ AgentStart
    \/ IndexerRuns /\ ScanBegin
    \/ IndexerRuns /\ ScanBlockNumberFails
    \/ IndexerRuns /\ ScanChunk
    \/ IndexerRuns /\ ScanFinish
    \/ IndexerStartReturns
    \/ ServerFails
    \/ GetAddress
    \/ \E tdxOk \in BOOLEAN : GetQuote(tdxOk)
    \/ CancelRoot
    \/ ServerShutdown
    \/ IndexerTaskStops
    \/ MonitorTaskStops
    \/ StartReturns

SpecApi == InitFresh /\ [][NextApi]_vars

\* The whole worker under a root context that its caller cancels: the
\* goroutines of the indexer, the scheduler and the settlements take their
\* steps while the functions that run them have not returned.  The clock
\* stops at ShortMaxTime.
NextCancel ==
    \/ \E a \in Addr, d \in Durations : CreateCollection(a, d)
    \/ \E a \in Addr : SuggestPrompt(a)
    \/ TickUpTo(ShortMaxTime)
    \/ NewAgent("0.0.0.0:8080", "seed 1", FactoryAddress)
    \/ AgentStart
    \/ IndexerStartReturns
    \/ IndexerRuns /\ ScanBegin
    \/ IndexerRuns /\ ScanBlockNumberFails
    \/ IndexerRuns /\ ScanChunk
    \/ IndexerRuns /\ ScanFinish
    \/ \E a \in Addr : InitSetFlag(a)
    \/ \E a \in Addr : InitSetTimestamp(a)
    \/ \E a \in Addr : InitSetDuration(a)
    \/ MonitorRuns /\ SweepTick
    \/ \E a \in Addr : SweepVisit(a)
    \/ SweepLoopIter
    \/ SweepLoopExit
    \/ SweepEnd
    \/ \E i \in settleTasks : SettleRun(i)
    \/ \E i \in settleTasks : SettleFails(i)
    \/ LoopRuns /\ AgentReceive
    \/ \E t \in procTasks : ProcPipeline(t)
    \/ \E t \in procTasks : ProcPipelineFails(t)
    \/ \E t \in procTasks : ProcLock(t)
    \/ \E t \in procTasks : ProcSubmit(t)
    \/ CancelRoot
    \/ ServerShutdown
    \/ IndexerTaskStops
    \/ MonitorTaskStops
    \/ StartReturns

SpecCancel == InitFresh /\ [][NextCancel]_vars

\* The agent with a receive loop that can lag behind, on a clock that runs
\* to LongMaxTime; no call fails.
NextBackpressure ==
    \/ \E a \in Addr : CreateCollection(a, 1)
    \/ \E a \in Addr : SuggestPrompt(a)
    \/ TickUpTo(LongMaxTime)
    \/ ScanBegin
    \/ ScanChunk
    \/ ScanFinish
    \/ \E a \in Addr : InitSetFlag(a)
    \/ \E a \in Addr : InitSetTimestamp(a)
    \/ \E a \in Addr : InitSetDuration(a)
    \/ SweepTick
    \/ \E a \in Addr : SweepVisit(a)
    \/ SweepLoopIter
    \/ SweepLoopExit
    \/ SweepEnd
    \/ \E i \in settleTasks : SettleRun(i)
    \/ AgentReceive

SpecBackpressure == InitFresh /\ [][NextBackpressure]_vars

\* A call of the chain RPC by the pool or by a settle goroutine fails.
RpcFailStep ==
    \/ \E a \in Addr : InitFails(a)
    \/ \E i \in settleTasks : SettleFails(i)

\* The agent of LiveSpec on a chain RPC whose view calls can fail: the
\* creationTimestamp / auctionDuration calls of initializeCollection and
\* the GetAuction call of a settle goroutine.
NextRetry ==
    \/ NextLive
    \/ \E a \in Addr : InitFails(a)
    \/ \E i \in settleTasks : SettleFails(i)

\* No goroutine is starved; a failing call is under no obligation to
\* happen.
RetrySpec == InitFresh /\ [][NextRetry]_vars /\ Fairness

\* The wallet signing Mint messages, one after the other.
NextWallet ==
    \E seed \in Seeds, to \in Recipients, uri \in Uris, domain \in Domains,
       contract \in Deployments :
        SignAndRecover(seed, to, uri, domain, contract)

SpecWallet == InitFresh /\ [][NextWallet]_vars

\* The chain alone: collections, bids, the clock, and finishPromptAuction
\* transactions of anyone, with any signature.
NextContract ==
    \/ ChainStep
    \/ \E a \in Addr, auctionId \in 0..1, uri \in Uris :
          \E signature \in TxSignatures(a) :
              SendFinishPromptAuction(a, auctionId, uri, signature)

SpecContract == InitFresh /\ [][NextContract]_vars

\* ------------------------------------------------------------------- claims


\* The collections whose CollectionCreated log the factory has emitted.
FactoryCreated ==
    {a \in Addr \cup RogueAddr :
        \E b \in 1..Len(chainLogs) :
            chainLogs[b] = CollectionCreatedLog(FactoryAddress, a)}

\* The ids of the PromptAuctionFinished logs of a, in chain order.
RECURSIVE FinishedIdsOf(_, _)
FinishedIdsOf(a, logs) ==
    IF logs = <<>> THEN <<>>
    ELSE IF Head(logs) = PromptAuctionFinishedLog(a, Head(logs).auctionId)
         THEN <<Head(logs).auctionId>> \o FinishedIdsOf(a, Tail(logs))
         ELSE FinishedIdsOf(a, Tail(logs))

\* The cache entry of a holds what initializeCollection stores and no
\* task of the pool is writing it.
MetadataComplete(a) ==
    /\ a \in DOMAIN cache
    /\ initTasks[a] = "none"
    /\ MetadataStored(cache[a], a)

\* A step of the scheduler that forks a settle task.
ForkStep == Len(forks') > Len(forks)

\* C1: within one run, no two AuctionEnd sent on the channel have the same
\* collection and auction id.
C1_AtMostOneAuctionEnd ==
    \A i, j \in 1..Len(emitted) :
        i # j => <<emitted[i].coll, emitted[i].id>> # <<emitted[j].coll, emitted[j].id>>

C1_Witness == Len(emitted) >= 2

\* C2: a fresh worker on a chain where the auctions 0..k of a collection
\* have been finished (logs in that order) comes out of its first scan with
\* NextAuctionId = k+1, and, its metadata stored, neither forks a settle
\* task nor emits an AuctionEnd for an id in 0..k.
C2_RecoveryFromRestart ==
    [][\A a \in Addr :
        LET ids == FinishedIdsOf(a, chainLogs)
            k == Len(ids) - 1
        IN (k >= 0 /\ ids = [i \in 1..Len(ids) |-> i - 1]) =>
              /\ (/\ a \in DOMAIN cache
                  /\ cache[a].NextAuctionIdInitialized
                  /\ \A i \in 1..Len(forks) : forks[i].coll # a)
                 => cache[a].NextAuctionId = k + 1
              /\ (ForkStep /\ sweep.addr = a /\ MetadataComplete(a))
                 => forks'[Len(forks')].id \notin 0..k
              /\ (Len(emitted') > Len(emitted) /\ MetadataComplete(a)
                    /\ emitted'[Len(emitted')].coll = a)
                 => emitted'[Len(emitted')].id \notin 0..k]_vars

\* C3: NextAuctionId of a collection never decreases, and it increases
\* with every settle task the scheduler forks.
C3_NextAuctionIdMonotonic ==
    [][/\ \A a \in DOMAIN cache :
            a \in DOMAIN cache' =>
                cache'[a].NextAuctionId >= cache[a].NextAuctionId
       /\ ForkStep =>
            cache'[sweep.addr].NextAuctionId > cache[sweep.addr].NextAuctionId]_vars

\* C4: at any instant at most one processAuctionEnd task is between
\* a.mu.Lock() and the return of FinishPromptAuction.
C4_SingleInFlightSubmit ==
    Cardinality({t \in procTasks : t.pc = "submit"}) <= 1

C4_Witness ==
    \E t, u \in procTasks : t.pc = "submit" /\ u.pc = "lock"

\* C5 (as stated): the AuctionEnd of a collection arrive on the channel in
\* strictly increasing id order.
C5_ArrivalOrder ==
    \A i, j \in 1..Len(emitted) :
        (i < j /\ emitted[i].coll = emitted[j].coll)
            => emitted[i].id < emitted[j].id

\* C5 (amended): of two AuctionEnd of a collection, the one with the
\* smaller id comes from the settle task that was forked first.
C5_ForkOrder ==
    \A i, j \in 1..Len(emitted) :
        (emitted[i].coll = emitted[j].coll /\ emitted[i].id < emitted[j].id)
            => emitted[i].fork < emitted[j].fork

C5_Witness ==
    /\ Len(emitted) >= 2
    /\ emitted[1].coll = emitted[2].coll
    /\ emitted[1].id > emitted[2].id

\* C6: the scheduler forks a settle task for auction n of a collection
\* whose metadata is stored only when now >= creation + (n+1) * duration.
C6_ForkOnlyExpired ==
    [][(ForkStep /\ MetadataComplete(sweep.addr)) =>
          LET f == forks'[Len(forks')]
          IN sweep.now >= coll[f.coll].creationTimestamp
                          + (f.id + 1) * coll[f.coll].auctionDuration]_vars

\* C7: when the catch-up loop of a sweep leaves a collection whose
\* metadata is stored, it has forked exactly the ids from NextAuctionId (as
\* it was before) up to, not including, the current auction id.
C7_SweepForksExactly ==
    (/\ sweep.pc = "loop"
     /\ sweep.auctionEnd > sweep.now
     /\ MetadataComplete(sweep.addr)
     /\ sweep.now >= coll[sweep.addr].creationTimestamp) =>
        LET current == (sweep.now - coll[sweep.addr].creationTimestamp)
                       \div coll[sweep.addr].auctionDuration
        IN sweep.forked = {id \in 0..MaxNext : sweep.next0 <= id /\ id < current}

\* C8: only collections whose CollectionCreated log the factory emitted
\* get a cache entry, a settle task or an AuctionEnd.
C8_OnlyFactoryCollections ==
    /\ DOMAIN cache \subseteq FactoryCreated
    /\ \A i \in 1..Len(forks) : forks[i].coll \in FactoryCreated
    /\ \A i \in 1..Len(emitted) : emitted[i].coll \in FactoryCreated

C8_Witness ==
    /\ \E b \in 1..Len(chainLogs) :
          chainLogs[b] \in RogueLogs /\ b <= lastIndexedBlock
    /\ Len(forks) > 0

\* C9: the scheduler forks a settle task for a collection (and changes its
\* NextAuctionId) only if both flags are set and the initialisation of its
\* metadata has completed.
C9_ActsOnlyOnReady ==
    [][ForkStep =>
          /\ Initialized(cache[sweep.addr])
          /\ MetadataComplete(sweep.addr)]_vars

\* The token that finishPromptAuction mints for auction n of a.
Settled(a, n) ==
    /\ n \in coll[a].finished
    /\ \E i \in 1..Len(coll[a].tokens) :
          coll[a].tokens[i] = [uri |-> MetadataHash(a, n),
                               owner |-> getAuction(a, n).highestBidder]

\* An expired auction n of a, with a bidder and not finished, while a is
\* ready and its metadata stored.
AwaitsSettlement(a, n) ==
    IF MetadataComplete(a)
    THEN /\ Initialized(cache[a])
         /\ time >= getAuctionEndTime(a, n)
         /\ HasBidder(getAuction(a, n))
         /\ n \notin coll[a].finished
    ELSE FALSE

\* The scheduler has counted the ids of a up to the bound of the model.
BeyondMaxNext(a) ==
    IF a \in DOMAIN cache THEN cache[a].NextAuctionId >= MaxNext ELSE FALSE

\* C10: when no call fails and no goroutine is starved, an expired auction
\* n with a bidder, not yet finished, of a ready collection with its
\* metadata stored is eventually finished by the agent, the token minted
\* carrying the metadata hash and owned by the highest bidder (as long as
\* NextAuctionId stays below MaxNext).
C10_HappyPathLiveness ==
    \A a \in Addr : \A n \in 0..MaxTime :
        AwaitsSettlement(a, n) ~> (Settled(a, n) \/ BeyondMaxNext(a))

\* C11: an auction without a bid gets no AuctionEnd, no settlement task and
\* no token: every AuctionEnd sent and every processAuctionEnd task is for
\* an auction with a non-zero highest bidder, named as the winner, and only
\* such auctions are finished.
C11_NoBidNoAuctionEnd ==
    /\ \A i \in 1..Len(emitted) :
          /\ HasBidder(getAuction(emitted[i].coll, emitted[i].id))
          /\ emitted[i].winner # ZeroAddress
    /\ \A t \in procTasks :
          /\ HasBidder(getAuction(t.msg.coll, t.msg.id))
          /\ t.msg.winner # ZeroAddress
    /\ \A a \in Addr : coll[a].finished \subseteq coll[a].bids

\* The settle task of an expired auction without a bid has run.
C11_Witness ==
    \E i \in 1..Len(forks) :
        /\ i \notin settleTasks
        /\ forks[i].id <= MaxNext
        /\ time >= getAuctionEndTime(forks[i].coll, forks[i].id)
        /\ ~HasBidder(getAuction(forks[i].coll, forks[i].id))
        /\ \A j \in 1..Len(emitted) : emitted[j].fork # i


\* C12: size cap. When the HEAD response for the systemPromptUri reports a
\* Content-Length of systemPromptMaxSize (5000) or more, the resolver never
\* issues the GET, returns the empty string without an error, and the image
\* generator is called with an empty system prompt.
C12_SizeCap ==
    (pipe.headDone /\ pipe.headLength >= systemPromptMaxSize) =>
        /\ ~pipe.getDone
        /\ pipe.systemPrompt = EmptyString
        /\ pipe.failedAt \notin {"head", "get"}
        /\ pipe.genCalled => pipe.genSystemPrompt = EmptyString

\* C13: decryption fallback. For every fetched body the resolver returns
\* the decrypted text when RSA-OAEP decryption with the keystore key
\* succeeds and the raw bytes when it fails, and the image generator
\* receives exactly that string as its system prompt.
C13_DecryptionFallback ==
    pipe.getDone =>
        /\ pipe.systemPrompt =
              IF pipe.body.key = AgentRsaKey THEN pipe.body.text
              ELSE RawBytes(pipe.body)
        /\ pipe.genCalled => pipe.genSystemPrompt = pipe.systemPrompt

\* C14: the prompt sent to the image service is the resolved system prompt,
\* then "\n\n", then the winning prompt of the auction.
C14_SystemPromptFirst ==
    pipe.genCalled =>
        pipe.imageRequest =
            pipe.systemPrompt \o PromptSeparator \o pipe.event.prompt

\* C15: the image url is pinned first and then the metadata object
\* {name: domain.name, description: task.prompt, image: hash of the image
\* pin}; the hash of the metadata pin is the uri that is signed for
\* task.winner and passed to finishPromptAuction; when the image pin fails
\* the metadata pin is never attempted.
C15_PinImageThenMetadata ==
    /\ pipe.jsonPin # "none" => pipe.imagePin = "ok"
    /\ pipe.imagePin = "ok" => pipe.imageHash = UploadUrl(pipe.artUrl)
    /\ pipe.imagePin = "failed" =>
          pipe.jsonPin = "none" /\ ~pipe.signed /\ ~pipe.submitted
    /\ pipe.jsonPin = "ok" =>
          /\ pipe.jsonObject = [name |-> CollectionName,
                                description |-> pipe.event.prompt,
                                image |-> pipe.imageHash]
          /\ pipe.ipfsHash = [pinned |-> pipe.jsonObject]
    /\ pipe.signed =>
          /\ pipe.jsonPin = "ok"
          /\ pipe.signature = [to |-> pipe.event.winner, uri |-> pipe.ipfsHash]
    /\ pipe.submitted =>
          /\ pipe.signed
          /\ pipe.submittedId = pipe.event.id
          /\ pipe.submittedUri = pipe.ipfsHash
          /\ pipe.submittedSignature = pipe.signature

\* A settlement was submitted with a pinned image and pinned metadata.
C15_Witness ==
    /\ pipe.submitted
    /\ pipe.imagePin = "ok"
    /\ pipe.jsonPin = "ok"
    /\ pipe.event.winner = User


\* C16: lastIndexedBlock never decreases, whatever heads BlockNumber reports.
C16_LastIndexedBlockMonotonic ==
    [][lastIndexedBlock' >= lastIndexedBlock]_vars

\* An indexEvents call returns an error: the scan ends before its loop has
\* passed targetBlock.
ScanErrorStep ==
    /\ scan.pc = "chunks"
    /\ scan.fromBlock <= scan.targetBlock
    /\ scan'.pc = "idle"

\* C17: lastIndexedBlock changes only in the step that ends a scan whose
\* loop has gone through every chunk up to targetBlock, and becomes
\* targetBlock; a scan that returns an error leaves lastIndexedBlock and
\* the cache (so every NextAuctionIdInitialized) as they are; and every
\* scan starts from lastIndexedBlock, so the next one retries from the same
\* block.
C17_AdvanceOnlyAfterAllChunks ==
    [][/\ lastIndexedBlock' # lastIndexedBlock =>
             /\ scan.pc = "chunks"
             /\ scan.fromBlock > scan.targetBlock
             /\ lastIndexedBlock' = scan.targetBlock
             /\ scan'.pc = "idle"
       /\ ScanErrorStep =>
             /\ lastIndexedBlock' = lastIndexedBlock
             /\ cache' = cache
       /\ (scan.pc = "idle" /\ scan'.pc = "chunks") =>
             /\ scan'.fromBlock = lastIndexedBlock
             /\ lastIndexedBlock' = lastIndexedBlock
             /\ cache' = cache]_vars

\* A scan has applied a chunk and then failed: the collection it discovered
\* is cached without the flag and lastIndexedBlock is where it was.
C17_Witness ==
    /\ scan.pc = "idle"
    /\ started
    /\ lastIndexedBlock = 0
    /\ Len(chainLogs) > ChunkSize
    /\ \E a \in DOMAIN cache : ~cache[a].NextAuctionIdInitialized

\* C18: idempotent indexing. For every head h, indexEvents run a second
\* time from the same lastIndexedBlock up to h leaves the cache of the
\* first run unchanged, and so does a run after one that failed after any
\* number of chunks.
C18_IdempotentIndexing ==
    \A h \in 0..Len(chainLogs) :
        LET once == indexEvents(cache, lastIndexedBlock, h)
        IN /\ indexEvents(once, lastIndexedBlock, h) = once
           /\ \A n \in 0..(h + 1) :
                 indexEvents(PartialIndexEvents(cache, lastIndexedBlock, h, n),
                             lastIndexedBlock, h) = once

\* A scan of more than one chunk has reached the head and has taken the
\* NextAuctionId of a collection from a PromptAuctionFinished log; the run
\* over the same blocks again gives the cache that is there.
C18_Witness ==
    /\ scan.pc = "idle"
    /\ Len(chainLogs) > ChunkSize
    /\ lastIndexedBlock = Len(chainLogs)
    /\ \E a \in DOMAIN cache :
          /\ cache[a].NextAuctionIdInitialized
          /\ cache[a].NextAuctionId > 0
    /\ indexEvents(cache, 0, Len(chainLogs)) = cache


\* The last call was a ReadSealedFile of a file that holds what a
\* WriteSealedFile stored.
ReadOfStored == boot.op = "read" /\ boot.stored.kind = "written"

SameDerivedKey == DerivedKey(boot.identity) = DerivedKey(boot.stored.identity)

\* C19 as stated: WriteSealedFile(x) followed by ReadSealedFile with the
\* same derived key returns x; with a different derived key, or on a file
\* shorter than the nonce, ReadSealedFile returns an error and no plaintext.
C19_RoundTrip ==
    boot.op = "read" =>
        /\ (ReadOfStored /\ SameDerivedKey /\ (boot.tappdOk \/ boot.plain)) =>
              boot.err = "none" /\ boot.data = boot.stored.data
        /\ (ReadOfStored /\ ~SameDerivedKey) =>
              boot.err # "none" /\ boot.data = <<>>
        /\ (disk.exists /\ Len(disk.bytes) < NonceSize) =>
              boot.err # "none" /\ boot.data = <<>>

\* C19, with plain-setup off for the write and for the read: the round trip
\* under the same derived key returns x, and a different derived key or a
\* file shorter than the nonce gives an error and no plaintext.
C19_SealedRoundTrip ==
    (boot.op = "read" /\ ~boot.plain) =>
        /\ (ReadOfStored /\ ~boot.stored.plain /\ SameDerivedKey
              /\ boot.tappdOk) =>
              boot.err = "none" /\ boot.data = boot.stored.data
        /\ (ReadOfStored /\ ~boot.stored.plain /\ ~SameDerivedKey) =>
              boot.err # "none" /\ boot.data = <<>>
        /\ (disk.exists /\ Len(disk.bytes) < NonceSize) =>
              boot.err # "none" /\ boot.data = <<>>

\* A sealed record written under one identity has been read under the
\* other one, and the read has failed at the AEAD.
C19_Witness ==
    /\ ReadOfStored
    /\ ~boot.plain
    /\ ~boot.stored.plain
    /\ boot.stored.data # <<>>
    /\ ~SameDerivedKey
    /\ boot.tappdOk
    /\ boot.err = "aead"

\* C20: when the configuration is there and the load fails (file missing,
\* key derivation, file too short, AEAD, JSON), Setup generates a new
\* record; it returns that record, and the secure file holds it, when
\* generation and write succeed, and returns an error exactly when one of
\* the two fails.
C20_RegenerateOnLoadFailure ==
    (boot.op = "setup" /\ boot.configOk) =>
        /\ boot.loadErr # "none" =>
              /\ boot.regen \in {"ok", "generate", "write"}
              /\ boot.regen = "ok" =>
                    /\ boot.err = "none"
                    /\ boot.result = boot.generated
                    /\ boot.result # NoRecord
                    /\ loadSetup(disk, boot.plain, boot.identity,
                                 [tappdOk |-> TRUE, randOk |-> TRUE,
                                  nonce |-> "nonce 1", write |-> "written"])
                         = [err |-> "none", result |-> boot.result]
              /\ boot.regen # "ok" =>
                    /\ boot.err = "failed"
                    /\ boot.result = NoRecord
        /\ boot.err # "none" =>
              boot.loadErr # "none" /\ boot.regen \in {"generate", "write"}

\* A Setup whose load failed at the AEAD has written and returned a new
\* record.
C20_Witness ==
    /\ boot.op = "setup"
    /\ boot.configOk
    /\ boot.loadErr = "aead"
    /\ boot.regen = "ok"
    /\ boot.err = "none"
    /\ boot.result \in [seed : Seeds, rsa : RsaKeys, config : Configs]
    /\ disk.exists

\* -------------------------------------------------------------- attestation

\* C21: the report data Quote passes to the attestation service is 40
\* bytes, the 20 bytes of the wallet address followed by the 20 bytes of
\* the factory address; GET /address answers the wallet address and
\* GET /quote answers the quote obtained for that report data.
C21_ReportData ==
    /\ run.op = "GET /quote" =>
          /\ Len(run.report) = 40
          /\ \A i \in 1..20 :
                /\ run.report[i] =
                       [of |-> WalletAddress(run.seed), index |-> i]
                /\ run.report[20 + i] = [of |-> run.factory, index |-> i]
          /\ run.response.kind = "json" =>
                run.response.quote = [reportData |-> run.report]
    /\ run.op = "GET /address" =>
          /\ run.response.kind = "text"
          /\ run.response.text = <<"0x", WalletAddress(run.seed)>>

\* A quote was served by a worker whose wallet is the second seed's.
C21_Witness ==
    /\ run.op = "GET /quote"
    /\ run.seed = "seed 2"
    /\ run.factory = FactoryAddress
    /\ run.response.kind = "json"
    /\ Len(run.response.quote.reportData) = 40

\* C22: GET /quote answers 200 with the quote when the attestation service
\* succeeds, and 500 with the text of the error, and no quote, when the
\* service returns an error.
C22_QuoteStatus ==
    run.op = "GET /quote" =>
        /\ run.tdxOk =>
              /\ run.response.status = 200
              /\ run.response.kind = "json"
              /\ run.response.quote = [reportData |-> run.report]
        /\ ~run.tdxOk =>
              /\ run.response.status = 500
              /\ run.response.kind = "text"
              /\ run.response.text = <<"tdx quote failed">>
              /\ run.response.quote = NoQuote

\* The attestation service failed and the request was answered.
C22_Witness ==
    /\ run.op = "GET /quote"
    /\ ~run.tdxOk
    /\ run.response.status = 500

\* C23: with an empty HTTP bind the attestation server is not started and
\* the worker otherwise boots and runs: a process whose only unset variable
\* is the bind does not exit, and once started it has no server and both
\* ticker tasks.
C23_EmptyBindBoots ==
    run.bind = "" =>
        /\ run.pc = "exited" =>
              run.exit \in {"a variable is required", "setup failed"}
        /\ run.pc = "running" /\ run.ctx = "live" =>
              /\ run.server = "none"
              /\ run.indexerTask = "running"
              /\ run.monitorTask = "running"

\* ------------------------------------------------------------- cancellation

\* C24: after the root context is cancelled both ticker tasks stop and
\* Agent.Start returns the error of the context; once they have, the task
\* channel is closed and no forked settle task or settlement task is left
\* blocked for ever: none waits to send on a full channel that nothing
\* receives from any more, none waits for a wallet mutex that no task will
\* unlock.
C24_RootCancellation ==
    (/\ run.ctx = "cancelled"
     /\ run.pc = "returned"
     /\ run.indexerTask = "stopped"
     /\ run.monitorTask = "stopped") =>
        /\ run.chanClosed
        /\ \A i \in settleTasks :
              ~(/\ HasBidder(getAuction(forks[i].coll, forks[i].id))
                /\ Len(chan) >= ChanCap)
        /\ \A t \in procTasks :
              t.pc = "lock" =>
                  mu = "free" \/ \E u \in procTasks : u.pc = "submit"

\* ---------------------------------------------------------------- signature

\* C25: for any (to, uri, domain) the address recovered from
\* SignMintMessage(to, uri, domain) over the EIP-712 encoding of
\* Mint(address to,string uri) under that domain is the wallet address, and
\* the collection whose domain it is recovers the same address in
\* finishPromptAuction for the same highest bidder and uri.
C25_SignatureRoundTrip ==
    signing.done =>
        /\ signing.recovered = WalletAddress(signing.seed)
        /\ signing.domain = eip712Domain(signing.contract) =>
              signing.signer = WalletAddress(signing.seed)

\* The second wallet signed under the domain of a deployed collection.
C25_Witness ==
    /\ signing.done
    /\ signing.seed = "seed 2"
    /\ signing.domain = eip712Domain(signing.contract)
    /\ signing.signer = "wallet 2"

\* ------------------------------------------------------------------ secrets

\* C26: after a Setup the bytes of the secure file hold the signing seed
\* and the decryption key only inside the AEAD ciphertext, and neither is
\* written to the log.
C26_SecretsOnlySealed ==
    boot.op = "setup" =>
        /\ \A i \in DOMAIN disk.bytes :
              /\ disk.bytes[i].v \notin Seeds
              /\ disk.bytes[i].v \notin RsaKeys
        /\ boot.log.seed \notin Seeds
        /\ boot.log.rsa \notin RsaKeys

\* ----------------------------------------------------------------- on chain

\* C27: finishPromptAuction(auctionId, uri, signature) succeeds at most
\* once per auction id, and only when the time is at least
\* creationTimestamp + (auctionId + 1) * auctionDuration, the auction has a
\* highest bidder and the signature is the one of an authorised signer for
\* (highest bidder, uri) under the domain of the collection; a success
\* marks the auction finished and mints one token with that uri to the
\* highest bidder, and a revert changes nothing.
C27_AtMostOncePerAuction ==
    /\ [](\A a \in Addr :
            /\ \A id \in 0..1 :
                  Cardinality({b \in 1..Len(chainLogs) :
                      chainLogs[b] = PromptAuctionFinishedLog(a, id)}) <= 1
            /\ Len(coll[a].tokens) = Cardinality(coll[a].finished))
    /\ [][lastTx' # lastTx =>
            LET a == lastTx'.coll
                id == lastTx'.id
            IN /\ lastTx'.ok =>
                    /\ time >= coll[a].creationTimestamp
                                 + (id + 1) * coll[a].auctionDuration
                    /\ id \notin coll[a].finished
                    /\ id \in coll[a].bids
                    /\ lastTx'.signature =
                         [seed |-> "seed 1",
                          digest |-> TypedDataHash(User, lastTx'.uri,
                                         [Name |-> CollectionName,
                                          Version |-> "1", ChainId |-> 1,
                                          VerifyingContract |-> a])]
                    /\ coll'[a].finished = coll[a].finished \cup {id}
                    /\ coll'[a].tokens =
                         Append(coll[a].tokens,
                                [uri |-> lastTx'.uri, owner |-> User])
               /\ ~lastTx'.ok => coll' = coll /\ chainLogs' = chainLogs]_vars

\* A second, well signed submission for an auction that was finished is
\* rejected.
C27_Witness ==
    /\ lastTx.called
    /\ ~lastTx.ok
    /\ lastTx.reason = "Auction already finished"
    /\ lastTx.signature.seed = "seed 1"
    /\ lastTx.id \in coll[lastTx.coll].finished
    /\ Len(coll[lastTx.coll].tokens) = 1

\* ------------------------------------------------------------- wallet mutex

\* C28: when the finishPromptAuction call of a settlement task returns,
\* accepted or rejected, the wallet mutex is released.
C28_MutexReleasedAfterSubmit ==
    [][\A t \in procTasks :
          (t.pc = "submit" /\ t \notin procTasks') => mu' = "free"]_vars

\* ------------------------------------------------------- settlement pipeline

\* processAuctionEnd, lines 204-262: the calls of a task in the order of
\* the statements, and the place of a call in it.
PipeOrder ==
    <<"idle", "cacheGet", "head", "get", "domain", "generate", "uploadUrl",
      "uploadJson", "sign", "submit">>

PipeRank(pc) == CHOOSE i \in 1..Len(PipeOrder) : PipeOrder[i] = pc

\* C29: a settlement task submits finishPromptAuction only after the
\* prompt resolution, the domain fetch, the image generation, both pins and
\* the signing have succeeded, in that order; when a step fails no later
\* step of the task runs, no transaction is submitted for it, the task
\* ends without a retry and nothing outside the task changes.
C29_SubmitOnlyAfterAllSteps ==
    /\ [](/\ pipe.submitted =>
               pipe.signed /\ pipe.failedAt = "none" /\ pipe.pc = "idle"
          /\ pipe.signed => pipe.jsonPin = "ok"
          /\ pipe.jsonPin # "none" => pipe.imagePin = "ok"
          /\ pipe.imagePin # "none" => pipe.genCalled
          /\ pipe.genCalled => pipe.domainDone
          /\ pipe.domainDone =>
               \/ pipe.getDone
               \/ pipe.headDone /\ pipe.headLength >= systemPromptMaxSize
               \/ ~pipe.headDone /\ pipe.fromCache
          /\ pipe.failedAt # "none" =>
               /\ pipe.pc = "idle"
               /\ ~pipe.submitted
               /\ PipeRank(pipe.failedAt) <= PipeRank("domain") =>
                     ~pipe.domainDone
               /\ PipeRank(pipe.failedAt) <= PipeRank("generate") =>
                     ~pipe.genCalled
               /\ PipeRank(pipe.failedAt) <= PipeRank("uploadUrl") =>
                     pipe.imagePin # "ok"
               /\ PipeRank(pipe.failedAt) <= PipeRank("uploadJson") =>
                     pipe.jsonPin # "ok"
               /\ PipeRank(pipe.failedAt) <= PipeRank("sign") =>
                     ~pipe.signed)
    /\ [][/\ (pipe'.runs = pipe.runs /\ pipe'.pc # "idle"
              /\ pipe'.pc # pipe.pc) =>
               PipeRank(pipe'.pc) > PipeRank(pipe.pc)
          /\ pipe'.pc = pipe.pc => [pipe' EXCEPT !.cache = pipe.cache] = pipe
          /\ (pipe.failedAt = "none" /\ pipe'.failedAt # "none") =>
               /\ pipe'.failedAt = pipe.pc
               /\ pipe'.pc = "idle"
               /\ pipe'.runs = pipe.runs
               /\ pipe'.cache = pipe.cache
               /\ UNCHANGED <<chainVars, indexerVars, schedVars, agentVars,
                              disk, boot, run, lastTx>>
          /\ pipe.failedAt # "none" =>
               \/ [pipe' EXCEPT !.cache = pipe.cache] = pipe
               \/ pipe'.runs = pipe.runs + 1]_vars

\* A task whose signing failed has ended, with both pins done and no
\* transaction.
C29_Witness ==
    /\ pipe.failedAt = "sign"
    /\ pipe.jsonPin = "ok"
    /\ pipe.pc = "idle"
    /\ ~pipe.submitted
    /\ pipe.runs = 2

\* ------------------------------------------------------------- scan ranges

\* C30: a scan that follows a completed one starts at lastIndexedBlock + 1,
\* no chunk fetches a block that a completed scan has covered, and the
\* chunks of one scan follow each other without gap or overlap.
C30_EveryBlockOnce ==
    [][/\ (scan.pc = "idle" /\ scan'.pc = "chunks" /\ lastIndexedBlock >= 1)
            => scan'.fromBlock = lastIndexedBlock + 1
       /\ (scan.pc = "chunks" /\ scan'.pc = "chunks"
           /\ scan'.fromBlock # scan.fromBlock) =>
              /\ lastIndexedBlock >= 1 => scan.fromBlock > lastIndexedBlock
              /\ scan'.fromBlock > scan.fromBlock
              /\ scan'.fromBlock <= scan.fromBlock + ChunkSize + 1]_vars

\* The id of the last PromptAuctionFinished log of a in the blocks
\* from..to, or -1 when there is none.
LastFinishedId(a, from, to) ==
    LET ids == FinishedIdsOf(a, FilterLogs(from, to))
    IN IF ids = <<>> THEN -1 ELSE ids[Len(ids)]

\* The cache entry of a, as getCollectionInfo would return it.
InfoOf(c, a) == IF a \in DOMAIN c THEN c[a] ELSE ZeroInfo

\* C31: while NextAuctionIdInitialized of a cached collection is false, a
\* chunk with PromptAuctionFinished logs of the collection leaves
\* NextAuctionId = id + 1 of the last of them, and nothing else changes
\* NextAuctionId; the flag goes from false to true only in the step that ends
\* a scan whose chunks were all processed, whose range holds the
\* CollectionCreated log of the collection, with NextAuctionId what the
\* finish logs of the range make it; the flag is never cleared, and once it
\* is set only the scheduler's increment changes NextAuctionId.
C31_NextAuctionIdReconciliation ==
    [][\A a \in Addr :
         a \in DOMAIN cache' =>
           LET old == InfoOf(cache, a)
               new == cache'[a]
               chunk == scan.pc = "chunks" /\ scan'.pc = "chunks"
                        /\ scan'.fromBlock # scan.fromBlock
               lastInChunk ==
                   LastFinishedId(a, scan.fromBlock, scan'.fromBlock - 1)
               lastInRange ==
                   LastFinishedId(a, lastIndexedBlock, scan.targetBlock)
           IN /\ (chunk /\ ~old.NextAuctionIdInitialized /\ lastInChunk >= 0)
                    => new.NextAuctionId = (lastInChunk + 1) % UintModulus
              /\ (new.NextAuctionId # old.NextAuctionId) =>
                    \/ chunk /\ ~old.NextAuctionIdInitialized
                       /\ lastInChunk >= 0
                    \/ /\ ForkStep
                       /\ sweep.addr = a
                       /\ old.NextAuctionIdInitialized
                       /\ new.NextAuctionId
                            = (old.NextAuctionId + 1) % UintModulus
              /\ (~old.NextAuctionIdInitialized
                  /\ new.NextAuctionIdInitialized) =>
                    /\ scan.pc = "chunks"
                    /\ scan'.pc = "idle"
                    /\ scan.fromBlock > scan.targetBlock
                    /\ lastIndexedBlock' = scan.targetBlock
                    /\ \E b \in 1..scan.targetBlock :
                          /\ b >= lastIndexedBlock
                          /\ chainLogs[b]
                               = CollectionCreatedLog(FactoryAddress, a)
                    /\ new.NextAuctionId = old.NextAuctionId
                    /\ old.NextAuctionId
                         = IF lastInRange >= 0
                           THEN (lastInRange + 1) % UintModulus
                           ELSE 0
              /\ old.NextAuctionIdInitialized
                    => new.NextAuctionIdInitialized]_vars

\* A running scan has applied a chunk with a PromptAuctionFinished log of a
\* collection whose flag was set by an earlier scan, and NextAuctionId is
\* not the id of that log + 1.
C31_Witness ==
    \E a \in DOMAIN cache :
        /\ cache[a].NextAuctionIdInitialized
        /\ scan.pc = "chunks"
        /\ scan.fromBlock > lastIndexedBlock
        /\ LastFinishedId(a, lastIndexedBlock, scan.fromBlock - 1) >= 0
        /\ cache[a].NextAuctionId
             # (LastFinishedId(a, lastIndexedBlock, scan.fromBlock - 1) + 1)
               % UintModulus

\* C32: a processAuctionEnd that finds a live entry under the key of its
\* collection takes the prompt from it and makes no SystemPromptUri call, no
\* HEAD and no GET; a resolution that returns no error (the empty string of
\* an oversized prompt included) is stored under the key of the collection
\* and changes no other entry; a failing call stores nothing; and the cache
\* changes in no other way than by losing entries.
C32_PromptCache ==
    /\ [](pipe.fromCache =>
              ~pipe.uriCalled /\ ~pipe.headDone /\ ~pipe.getDone)
    /\ [][LET k == Hex(pipe.event.coll)
              resolved == pipe.pc \in {"head", "get"} /\ pipe'.pc = "domain"
          IN /\ (pipe.pc = "cacheGet" /\ pipe'.pc # "cacheGet"
                 /\ pipe.cache[k].hit) =>
                    /\ pipe'.pc = "domain"
                    /\ pipe'.fromCache
                    /\ pipe'.systemPrompt = pipe.cache[k].value
                    /\ pipe'.failedAt = "none"
                    /\ pipe'.cache = pipe.cache
             /\ resolved =>
                    /\ pipe'.cache =
                          [pipe.cache EXCEPT
                             ![k] = [hit |-> TRUE,
                                     value |-> pipe'.systemPrompt]]
                    /\ pipe.pc = "head" =>
                          /\ pipe'.headLength >= systemPromptMaxSize
                          /\ pipe'.systemPrompt = EmptyString
             /\ (pipe.failedAt = "none" /\ pipe'.failedAt # "none") =>
                    pipe'.cache = pipe.cache
             /\ (pipe'.cache # pipe.cache /\ ~resolved) =>
                    /\ pipe'.pc = pipe.pc
                    /\ \A x \in DOMAIN pipe.cache :
                          pipe'.cache[x] \in {pipe.cache[x], NoCacheEntry}]_vars

\* A later settlement of a collection has generated its image with the
\* prompt an earlier one cached, while the other collection has no entry.
C32_Witness ==
    /\ pipe.runs >= 2
    /\ pipe.fromCache
    /\ pipe.genCalled
    /\ \E a \in PipeCollections : ~pipe.cache[Hex(a)].hit

SendBlocked(i) ==
    /\ i \in settleTasks
    /\ HasBidder(getAuction(forks[i].coll, forks[i].id))
    /\ Len(chan) = ChanCap

\* C34: while a send on the full auctionEndChan is blocked, the sweep does
\* not move: the scheduler forks no settle task and increments no
\* NextAuctionId until the channel has room.
C34_SweepStallsWhileSendBlocked ==
    [][(\E i \in settleTasks : SendBlocked(i)) =>
          /\ sweep' = sweep
          /\ forks' = forks
          /\ \A a \in DOMAIN cache :
                cache'[a].NextAuctionId = cache[a].NextAuctionId]_vars

\* An AuctionEnd for auction n of a has been sent in this run.
EmittedFor(a, n) ==
    \E j \in 1..Len(emitted) : emitted[j].coll = a /\ emitted[j].id = n

\* Auction n of a has expired with a bidder, a is ready with its metadata
\* stored, no AuctionEnd for n has been sent and no settle goroutine for n
\* is still to run.
AwaitsAuctionEnd(a, n) ==
    IF MetadataComplete(a)
    THEN /\ Initialized(cache[a])
         /\ time >= getAuctionEndTime(a, n)
         /\ HasBidder(getAuction(a, n))
         /\ ~EmittedFor(a, n)
         /\ \A i \in settleTasks : forks[i] # [coll |-> a, id |-> n]
    ELSE FALSE

\* The CollectionCreated log of a has been scanned and no task is
\* initialising its metadata.
AwaitsMetadata(a) ==
    /\ a \in DOMAIN cache
    /\ initTasks[a] = "none"
    /\ ~cache[a].MetadataInitialized

\* C35: when the failures of the chain RPC stop, a collection whose
\* metadata initialisation failed eventually becomes ready, and an expired
\* auction with a bidder whose getAuction call failed eventually gets its
\* AuctionEnd (as long as NextAuctionId stays below MaxNext).
C35_TransientFailuresRetried ==
    (<>[][~RpcFailStep]_vars) =>
        \A a \in Addr :
            /\ AwaitsMetadata(a) ~> MetadataComplete(a)
            /\ \A n \in 0..ShortMaxTime :
                  AwaitsAuctionEnd(a, n) ~> (EmittedFor(a, n) \/ BeyondMaxNext(a))

\* The scheduler is inside the range over the cache (lines 147-191).
SweepIterating == sweep.pc \in {"range", "loop"}

\* C36: while the scheduler iterates over the cache, no step of the
\* indexer or of a pool worker inserts an entry into the cache, and while
\* the scheduler is in the catch-up loop of an entry, no such step writes
\* that entry.
C36_CacheMutualExclusion ==
    [][(SweepIterating /\ sweep' = sweep) =>
          /\ DOMAIN cache' = DOMAIN cache
          /\ sweep.pc = "loop" => cache'[sweep.addr] = cache[sweep.addr]]_vars

\* C37: the id of every settle goroutine the scheduler has forked is an id
\* of an auction of the collection that is over, one of 0 .. current id - 1:
\* never the wrapped value of NextAuctionId - 1 at NextAuctionId = 0.
C37_ForkedIdValid ==
    \A i \in 1..Len(forks) :
        /\ forks[i].id # (0 - 1) % UintModulus
        /\ forks[i].id < getCurrentAuctionId(forks[i].coll)

\* C38: every iteration of the catch-up loop moves auctionEnd towards the
\* exit of the loop, whatever the ready entry holds, so that the loop ends
\* after at most now - auctionEnd + 1 iterations; and when the loop ends,
\* creationTimestamp + NextAuctionId * auctionDuration of the entry is
\* beyond now.
C38_SweepTerminates ==
    [][/\ (sweep.pc = "loop" /\ sweep'.pc = "loop" /\ sweep' # sweep) =>
              sweep'.auctionEnd > sweep.auctionEnd
       /\ (sweep.pc = "loop" /\ sweep'.pc = "range") =>
              FirstAuctionEnd(cache[sweep.addr]) > sweep.now]_vars

\* C39: no AuctionEnd is sent for an auction whose record on chain is
\* already finished when the settle goroutine sends it.
C39_NoAuctionEndForFinished ==
    [][Len(emitted') > Len(emitted) =>
          ~getAuction(emitted'[Len(emitted')].coll,
                      emitted'[Len(emitted')].id).finished]_vars

====
